---- MODULE Spec2Model ----
(***************************************************************************)
(* A model of pdfcoll's metadata store (pdfcoll/meta.py), of the atomic    *)
(* file replacement it writes through (pdfcoll/utils.py) and of the        *)
(* archive layout it shares with the index engine.                         *)
(*                                                                         *)
(* Text is modelled as a sequence of lexemes: a lexeme is a single         *)
(* character ("a", "1", " ") or one of the few multi-character strings the *)
(* code's regular expressions look for ("!!perl/", "Boolean 0", ...).      *)
(* A YAML document is a sequence of lines, a line a sequence of lexemes    *)
(* and YAML indicators.  yaml.dump is modelled with the block layout of    *)
(* PyYAML (one mapping entry per line, one "- item" line per list item).   *)
(***************************************************************************)
EXTENDS Integers, Sequences, FiniteSets, TLC

\* ------------------------------------------------------------------ text

Digits == {"0", "1", "2", "3", "4", "5", "6", "7", "8", "9"}

LowerLetters == {"a", "b", "c", "d", "e", "f", "g", "l", "n", "o", "p", "r", "s", "t", "u"}

UpperLetters == {"A", "B", "C", "D", "N", "O", "P", "R"}

\* str.lower() on one character
LowerChar(c) ==
    CASE c = "A" -> "a"
      [] c = "B" -> "b"
      [] c = "P" -> "p"
      [] c = "C" -> "c"
      [] c = "D" -> "d"
      [] c = "N" -> "n"
      [] c = "O" -> "o"
      [] c = "R" -> "r"
      [] OTHER -> c

\* \w of Python's re: letters, digits and the underscore
IsWordChar(c) == c \in Digits \cup LowerLetters \cup UpperLetters \cup {"_"}

\* The characters of a lexeme.
LexChars(x) ==
    CASE x = "!!perl/" -> <<"!", "!", "p", "e", "r", "l", "/">>
      [] x = "scalar:" -> <<"s", "c", "a", "l", "a", "r", ":">>
      [] x = "Boolean 0" -> <<"B", "o", "o", "l", "e", "a", "n", " ", "0">>
      [] x = "Boolean 1" -> <<"B", "o", "o", "l", "e", "a", "n", " ", "1">>
      [] x = "false" -> <<"f", "a", "l", "s", "e">>
      [] x = "true" -> <<"t", "r", "u", "e">>
      [] x = "null" -> <<"n", "u", "l", "l">>
      [] OTHER -> <<x>>

RECURSIVE Chars(_)
Chars(s) == IF s = <<>> THEN <<>> ELSE LexChars(Head(s)) \o Chars(Tail(s))

\* ---------------------------------------------------------------- values

\* A metadata value: a string (v: its lexemes), an int (v: its decimal
\* digits), a bool (v: <<"true">> or <<"false">>), VNone (null) or a list of
\* scalar values (items).
VStr(s) == [type |-> "str", v |-> s, items |-> <<>>]

VInt(d) == [type |-> "int", v |-> d, items |-> <<>>]

VBool(b) == [type |-> "bool", v |-> IF b THEN <<"true">> ELSE <<"false">>, items |-> <<>>]

VNone == [type |-> "null", v |-> <<>>, items |-> <<>>]

VList(xs) == [type |-> "list", v |-> <<>>, items |-> xs]

\* dict.get(key, default) on a record (a function from field names to values)
Get(info, k, default) == IF k \in DOMAIN info THEN info[k] ELSE default

\* Python truthiness of a value
Truthy(x) ==
    CASE x.type = "str" -> x.v # <<>>
      [] x.type = "int" -> \E i \in 1..Len(x.v) : x.v[i] # "0"
      [] x.type = "bool" -> x.v = <<"true">>
      [] x.type = "list" -> x.items # <<>>
      [] OTHER -> FALSE

\* The fields yaml.dump emits, in its (sorted) order.
KeyOrder == <<"author", "bibkey", "flag", "sha1", "slug", "tags", "title", "year">>

Keys == {KeyOrder[i] : i \in 1..Len(KeyOrder)}

\* ------------------------------------------------------------------ yaml

AllDigits(s) == s # <<>> /\ \A i \in 1..Len(s) : s[i] \in Digits

\* A plain (unquoted) scalar with these lexemes would not load as a str:
\* the implicit resolver makes it a bool, an int or VNone.
ResolvesNonStr(s) == s \in {<<"true">>, <<"false">>, <<"null">>} \/ AllDigits(s)

\* The emitter's choice of scalar style for a str: plain when the string
\* is not empty, does not start with an indicator ("!") or end or start
\* with a space, and loads back as a str; single-quoted otherwise.
NeedsQuote(s) ==
    \/ s = <<>>
    \/ Head(s) \in {"!!perl/", " ", "'"}
    \/ s[Len(s)] = " "
    \/ ResolvesNonStr(s)

DumpScalar(x) ==
    IF x.type = "str" /\ NeedsQuote(x.v) THEN <<"'">> \o x.v \o <<"'">>
    ELSE IF x.type = "null" THEN <<"null">>
    ELSE x.v

RECURSIVE DumpItems(_)
DumpItems(xs) ==
    IF xs = <<>> THEN <<>>
    ELSE <<(<<"- ">> \o DumpScalar(Head(xs)))>> \o DumpItems(Tail(xs))

\* The lines of one mapping entry.
DumpEntry(k, x) ==
    IF x.type = "list"
    THEN IF x.items = <<>> THEN <<(<<k, ": ", "[]">>)>>
         ELSE <<(<<k, ": ">>)>> \o DumpItems(x.items)
    ELSE <<(<<k, ": ">> \o DumpScalar(x))>>

RECURSIVE DumpFrom(_, _)
DumpFrom(info, i) ==
    IF i > Len(KeyOrder) THEN <<>>
    ELSE (IF KeyOrder[i] \in DOMAIN info
          THEN DumpEntry(KeyOrder[i], info[KeyOrder[i]])
          ELSE <<>>) \o DumpFrom(info, i + 1)

\* yaml.dump(dict(info)): the text of a record, keys sorted.
YamlDump(info) == IF DOMAIN info = {} THEN <<(<<"{}">>)>> ELSE DumpFrom(info, 1)

\* re.sub(r'!!perl/.*<last>', <repl>, line) on one line: "." does not match
\* a newline, ".*" is greedy, so the match runs from the first "!!perl/"
\* that a <last> follows to the last <last> of the line.
SubLine(line, last, repl) ==
    LET starts == {i \in 1..Len(line) :
                      line[i] = "!!perl/" /\ \E j \in (i + 1)..Len(line) : line[j] = last}
    IN  IF starts = {} THEN line
        ELSE LET i == CHOOSE a \in starts : \A b \in starts : a <= b
                 j == CHOOSE a \in (i + 1)..Len(line) :
                          /\ line[a] = last
                          /\ \A b \in (a + 1)..Len(line) : line[b] # last
             IN  SubSeq(line, 1, i - 1) \o <<repl>> \o SubSeq(line, j + 1, Len(line))

_clean_perl_yaml(fc) ==
    [n \in 1..Len(fc) |-> SubLine(SubLine(fc[n], "Boolean 0", "false"), "Boolean 1", "true")]

\* The result of loading: ok, and the record when ok.
Loaded(info) == [ok |-> TRUE, rec |-> info]

YamlError == [ok |-> FALSE, rec |-> <<>>]

Indicators == {"'", ": ", "- ", "[]", "{}"}

\* One scalar: single-quoted, or plain and resolved.  A plain scalar that
\* starts with "!" is a tag, and yaml.load has no constructor for a Perl tag.
ScalarOk(t) ==
    IF t = <<>> THEN TRUE
    ELSE IF Head(t) = "'"
    THEN Len(t) >= 2 /\ t[Len(t)] = "'" /\ \A i \in 2..(Len(t) - 1) : t[i] \notin Indicators
    ELSE Head(t) # "!!perl/" /\ \A i \in 1..Len(t) : t[i] \notin Indicators

LoadScalar(t) ==
    IF t = <<>> THEN VNone
    ELSE IF Head(t) = "'" THEN VStr(SubSeq(t, 2, Len(t) - 1))
    ELSE IF t = <<"true">> THEN VBool(TRUE)
    ELSE IF t = <<"false">> THEN VBool(FALSE)
    ELSE IF t = <<"null">> THEN VNone
    ELSE IF AllDigits(t) THEN VInt(t)
    ELSE VStr(t)

\* Block mapping, line by line; last is the key whose list is being read.
RECURSIVE LoadLines(_, _, _, _)
LoadLines(lines, i, info, last) ==
    IF i > Len(lines) THEN Loaded(info)
    ELSE LET ln == lines[i] IN
         IF ln = <<"{}">> THEN (IF Len(lines) = 1 THEN Loaded(info) ELSE YamlError)
         ELSE IF ln # <<>> /\ Head(ln) = "- "
         THEN IF last # "" /\ info[last].type \in {"null", "list"} /\ ScalarOk(Tail(ln)) /\ Len(ln) > 1
              THEN LoadLines(lines, i + 1,
                             [info EXCEPT ![last] =
                                 VList(info[last].items \o <<LoadScalar(Tail(ln))>>)],
                             last)
              ELSE YamlError
         ELSE IF Len(ln) >= 2 /\ ln[1] \notin Indicators /\ ln[2] = ": "
         THEN LET k == ln[1]
                  rest == SubSeq(ln, 3, Len(ln))
                  others == [x \in DOMAIN info \ {k} |-> info[x]]
              IN  IF rest = <<"[]">> THEN LoadLines(lines, i + 1, (k :> VList(<<>>)) @@ others, "")
                  ELSE IF ScalarOk(rest)
                  THEN LoadLines(lines, i + 1, (k :> LoadScalar(rest)) @@ others,
                                 IF rest = <<>> THEN k ELSE "")
                  ELSE YamlError
         ELSE YamlError

\* yaml.load(text)
YamlLoad(text) == LoadLines(text, 1, <<>>, "")

\* ------------------------------------------------------------------ slug

SlugMaxLen == 40

YearDigits == 4

PartialShaLen == 7

\* unescape_entities: '' for a falsy argument, else the text with its
\* character references expanded
unescape_entities(html) ==
    IF html = <<>> THEN <<>>
    ELSE [i \in 1..Len(html) |-> IF html[i] = "&amp;" THEN "&" ELSE html[i]]

\* join_with.join(words) for the words of re.split(r'\W+', cleaned)
RECURSIVE JoinWords(_, _, _, _)
JoinWords(cs, i, acc, gap) ==
    IF i > Len(cs) THEN acc
    ELSE IF IsWordChar(cs[i])
    THEN JoinWords(cs, i + 1,
                   acc \o (IF gap /\ acc # <<>> THEN <<"-">> ELSE <<>>) \o <<cs[i]>>,
                   FALSE)
    ELSE JoinWords(cs, i + 1, acc, TRUE)

Truncate(s, n) == SubSeq(s, 1, IF Len(s) < n THEN Len(s) ELSE n)

\* slugify(s, ''): the lower-cased words of s joined by '-', cut to max_len
\* characters; the fallback '' when s has no word character.
slugify(s) ==
    LET cs == Chars(unescape_entities(s))
        cleaned == [i \in 1..Len(cs) |-> LowerChar(cs[i])]
    IN  Truncate(JoinWords(cleaned, 1, <<>>, FALSE), SlugMaxLen)

RECURSIVE ReprItems(_)
ReprItems(xs) ==
    IF xs = <<>> THEN <<>>
    ELSE <<"'">> \o Chars(Head(xs).v) \o <<"'">>
         \o (IF Len(xs) > 1 THEN <<",", " ">> ELSE <<>>) \o ReprItems(Tail(xs))

\* str(value)
PyStr(x) ==
    CASE x.type = "str" -> Chars(x.v)
      [] x.type = "int" -> x.v
      [] x.type = "bool" -> IF x.v = <<"true">> THEN <<"T", "r", "u", "e">>
                            ELSE <<"F", "a", "l", "s", "e">>
      [] x.type = "list" -> <<"[">> \o ReprItems(x.items) \o <<"]">>
      [] OTHER -> <<"N", "o", "n", "e">>

\* re.search(r'\b(\d{4})\b', s): the first run of exactly four digits
\* between word boundaries, <<>> when there is none.
FoundYear(s) ==
    LET hits == {i \in 1..(Len(s) - YearDigits + 1) :
                    /\ \A j \in i..(i + YearDigits - 1) : s[j] \in Digits
                    /\ (i = 1 \/ ~IsWordChar(s[i - 1]))
                    /\ (i + YearDigits > Len(s) \/ ~IsWordChar(s[i + YearDigits]))}
    IN  IF hits = {} THEN <<>>
        ELSE LET i == CHOOSE a \in hits : \A b \in hits : a <= b
             IN  SubSeq(s, i, i + YearDigits - 1)

\* re.sub(r'\W', '-', bibkey)
BibkeySub(s) == [i \in 1..Len(s) |-> IF IsWordChar(s[i]) THEN s[i] ELSE "-"]

RECURSIVE JoinParts(_)
JoinParts(parts) ==
    IF parts = <<>> THEN <<>>
    ELSE IF Head(parts) = <<>> THEN JoinParts(Tail(parts))
    ELSE LET rest == JoinParts(Tail(parts))
         IN  Head(parts) \o (IF rest = <<>> THEN <<>> ELSE <<"_">> \o rest)

\* slugify, h.unescape and re.sub need a string: the automatic slug cannot
\* be assembled from a truthy author, title or bibkey of another type.
SlugInputsOk(info) ==
    \A k \in {"author", "title", "bibkey"} :
        k \in DOMAIN info /\ Truthy(info[k]) => info[k].type = "str"

\* The automatic slug of get_slug: '_'.join of the non-empty elements
\* author, title, year, bibkey, sha1[:7].
AutoSlug(info, sha1) ==
    LET text(k) == IF k \in DOMAIN info /\ Truthy(info[k]) THEN info[k].v ELSE <<>>
        author == slugify(text("author"))
        title == slugify(text("title"))
        year == FoundYear(PyStr(Get(info, "year", VStr(<<>>))))
        bibkey == BibkeySub(Chars(text("bibkey")))
        partial_sha == SubSeq(sha1, 1, PartialShaLen)
    IN  JoinParts(<<author, title, year, bibkey, partial_sha>>)

\* get_slug without the lines that turn save and ignore_saved off for a
\* record that has a slug.
SlugDecisionUnguarded(info, sha1, save, overwrite, ignore_saved) ==
    LET stored == Get(info, "slug", VNone)
        slug == VStr(AutoSlug(info, sha1))
    IN  IF Truthy(stored) /\ ~ignore_saved
        THEN [value |-> stored, persist |-> FALSE]
        ELSE [value |-> slug,
              persist |-> save /\ Truthy(slug) /\ Get(info, "slug", VStr(<<>>)) # slug]

\* The branches of get_slug after its read_meta: the value it returns and
\* whether it calls set_slug first.
SlugDecision(info, sha1, save, overwrite, ignore_saved) ==
    LET stored == Get(info, "slug", VNone)
        save1 == IF Truthy(stored) /\ save THEN overwrite ELSE save
        ignore1 == IF Truthy(stored) /\ save1 THEN FALSE ELSE ignore_saved
        slug == VStr(AutoSlug(info, sha1))
    IN  IF Truthy(stored) /\ ~ignore1
        THEN [value |-> stored, persist |-> FALSE]
        ELSE [value |-> slug,
              persist |-> save1 /\ Truthy(slug) /\ Get(info, "slug", VStr(<<>>)) # slug]

\* -------------------------------------------------------- archive layout

ShaLen == 40

MinShaLen == 4

ShardLen == 2

basedir == <<"pdfcollection">>

meta_file == <<"meta.yml">>

\* os.path.join(base, sha1[:2], sha1, fn), as Meta.get_path joins them
PathIn(base, sha1, fn) == <<base, SubSeq(sha1, 1, ShardLen), sha1, fn>>

\* os.path.dirname of such a path
DirName(path) == SubSeq(path, 1, Len(path) - 1)

\* re.sub(r'^.*/', '', sha1): what follows the last slash
RECURSIVE BaseName(_)
BaseName(s) ==
    IF \E i \in 1..Len(s) : s[i] = "/" THEN BaseName(Tail(s)) ELSE s

\* dirname of FTS._bundleinfo: os.path.join(basedir, sd, sha1) for the
\* sha1 without a directory path before it
BundleDir(base, sha1) ==
    LET s == BaseName(sha1)
        sd == SubSeq(s, 1, ShardLen)
    IN  <<base, sd, s>>

\* Directories made with the shard named by three characters.
ArchiveDirsWide(base, sha1) ==
    [subdir_path |-> <<base, SubSeq(sha1, 1, ShardLen + 1)>>,
     dir_path |-> <<base, SubSeq(sha1, 1, ShardLen + 1), sha1>>]

\* subdir_path and dir_path of Archiver._maybe_mkdir
ArchiveDirs(base, sha1) ==
    LET subdir == SubSeq(sha1, 1, ShardLen)
        subdir_path == <<base, subdir>>
    IN  [subdir_path |-> subdir_path, dir_path |-> subdir_path \o <<sha1>>]

\* Meta.get_path without its existence check: basedir/sha1[:2]/sha1/fn
PathOf(sha1, fn) == PathIn(basedir, sha1, fn)

\* The directory of an identity.
DirOf(sha1) == <<basedir, SubSeq(sha1, 1, ShardLen), sha1>>

StartsWith(s, p) == Len(p) <= Len(s) /\ SubSeq(s, 1, Len(p)) = p

\* glob.glob('%s/%s/%s*' % (basedir, p[:2], p)) over the directories ds
Glob(ds, p) ==
    {d \in ds : /\ Len(d) = 3
                /\ d[1] = basedir
                /\ d[2] = SubSeq(p, 1, IF Len(p) < ShardLen THEN Len(p) ELSE ShardLen)
                /\ StartsWith(d[3], p)}

\* The guard of expand_sha1 as written.
ExpandGuard(p) == MinShaLen < Len(p) /\ Len(p) < ShaLen

\* Meta.expand_sha1: the full identity, None, or ValueError when ambiguous
expand_sha1(ds, p) ==
    LET found == Glob(ds, p)
    IN  IF ExpandGuard(p) /\ Cardinality(found) > 1
        THEN [status |-> "ValueError", value |-> <<>>]
        ELSE IF ExpandGuard(p) /\ found # {}
        THEN [status |-> "ok", value |-> (CHOOSE d \in found : TRUE)[3]]
        ELSE [status |-> "None", value |-> <<>>]

\* ------------------------------------------------------------ filesystem

VARIABLES
    dirs,    \* the directories that exist (paths)
    files,   \* files[path]: the regular files that exist, by path
    litter,  \* how many temporary files failed writes have left behind
    euid,    \* the effective user of the processes
    pc,      \* pc[p]: the statement process p is at
    op,      \* op[p]: the call process p is running
    loc,     \* loc[p]: the local variables of the call
    last     \* last[p]: the call p completed last and its outcome

\* The index (sqlite_fts.py): the tables of the database, the FTS object
\* and the call it is running.
VARIABLES
    page,      \* table page: rows [page_id, folder_sha1, file_name]
    fts_page,  \* virtual table fts_page: file_contents by rowid
    meta,      \* table meta: rows [meta_id, folder_sha1, fields, ts]
    fts,       \* the FTS object: its attributes
    asked,     \* the force_update argument the FTS object was made with
    mtime,     \* st_mtime of the database file and of the bundle's paths
    now,       \* the time
    ipc,       \* the statement the index call is at
    icall,     \* the index call that is running: arguments and locals
    ilast      \* the index call completed last and its outcome

fsvars == <<dirs, files, litter, euid, pc, op, loc, last>>

dbvars == <<page, fts_page, meta>>

ixvars == <<page, fts_page, meta, fts, asked, mtime, now, ipc, icall, ilast>>

vars == <<dirs, files, litter, euid, pc, op, loc, last,
          page, fts_page, meta, fts, asked, mtime, now, ipc, icall, ilast>>

\* How many left-behind temporary files the model follows.
MaxLitter == 1

Procs == {"w1", "w2"}

\* The group of the processes, and the groups they may give a file to.
egid == "staff"

\* st_mode: the file type and the permission bits
RegularMode(perm) == [fmt |-> "S_IFREG", perm |-> perm]

\* stat.S_IMODE
S_IMODE(mode) == mode.perm

File(content, uid, gid, perm) ==
    [content |-> content, uid |-> uid, gid |-> gid, mode |-> RegularMode(perm)]

NoTmp == [made |-> FALSE, closed |-> FALSE, content |-> <<>>]

\* os.path.exists
Exists(fn) == fn \in DOMAIN files \/ fn \in dirs

\* open(fn).read() is allowed to the owner, to root, and to the others
\* when the file is world-readable.
CanRead(f) == euid = "root" \/ f.uid = euid \/ S_IMODE(f.mode) = "0644"

\* os.chown by a process that is not root: only on its own file, keeping
\* the owner, and only to a group it belongs to.
CanChown(f, uid, gid) == euid = "root" \/ (f.uid = euid /\ uid = euid /\ gid = egid)

\* os.chmod: on one's own file, or as root
CanChmod(f) == euid = "root" \/ f.uid = euid

\* get_path for a path that is not required to exist (a slip a caller of
\* meta_path could make).
get_path_unchecked(sha1, must_exist) == [status |-> "ok", fn |-> PathOf(sha1, meta_file)]

\* Meta.get_path(sha1, 'meta_file', must_exist): the path, or ValueError
get_path(sha1, must_exist) ==
    LET fn == PathOf(sha1, meta_file)
    IN  IF must_exist /\ ~Exists(fn) THEN [status |-> "ValueError", fn |-> fn]
        ELSE [status |-> "ok", fn |-> fn]

\* Meta.meta_path(sha1, must_exist=True)
meta_path(sha1) == get_path(sha1, TRUE)

\* What read_meta makes of the text of a record file.
ReadText(fc) == YamlLoad(_clean_perl_yaml(fc))

\* info[k] = changes[k] for k in changes
Merge(info, changes) ==
    [k \in DOMAIN info \cup DOMAIN changes |->
        IF k \in DOMAIN changes THEN changes[k] ELSE info[k]]

\* ------------------------------------------------------------------ calls

NoOp ==
    [name |-> "", sha1 |-> <<>>, info |-> <<>>, changes |-> <<>>,
     save |-> FALSE, overwrite |-> FALSE, ignore_saved |-> FALSE]

NoLoc ==
    [stk |-> <<>>, info |-> <<>>, changes |-> <<>>, text |-> <<>>, fn |-> <<>>,
     st |-> [uid |-> "", gid |-> "", mod |-> ""], tmp |-> NoTmp,
     slug |-> VNone, prior |-> <<>>, renamed |-> FALSE]

\* No get_slug call came right before.
NoPrev == [sha1 |-> <<>>, value |-> VNone, overwrite |-> FALSE, ignore_saved |-> FALSE]

NoLast ==
    [name |-> "", sha1 |-> <<>>, info |-> <<>>, changes |-> <<>>,
     save |-> FALSE, overwrite |-> FALSE, ignore_saved |-> FALSE,
     status |-> "", rec |-> <<>>, value |-> VNone,
     prefiles |-> <<>>, predirs |-> {}, prelitter |-> 0, text |-> <<>>, wrote |-> FALSE,
     prev |-> NoPrev]

\* What a get_slug(save=True) remembers of the call right before it, when
\* that was a get_slug(save=True) with the same arguments: the slug it
\* returned.
PrevOf(l, o) ==
    IF /\ l.name = "get_slug" /\ l.status = "ok" /\ l.save
       /\ o.name = "get_slug" /\ o.save /\ o.sha1 = l.sha1
       /\ o.overwrite = l.overwrite /\ o.ignore_saved = l.ignore_saved
    THEN [sha1 |-> l.sha1, value |-> l.value, overwrite |-> l.overwrite,
          ignore_saved |-> l.ignore_saved]
    ELSE NoPrev

\* An identity: its first characters, padded to 40.
MkId(head) == head \o [i \in 1..(ShaLen - Len(head)) |-> "0"]

IdA == MkId(<<"a", "b", "c", "d", "e">>)

IdB == MkId(<<"a", "b", "c", "d", "f">>)

MetaIds == {IdA, IdB}

\* The records written: strings, a string that holds the text of a Perl
\* boolean tag, an int, a list.
InfoSet(sha1) ==
    {[sha1 |-> VStr(sha1), author |-> VStr(<<"A", " ", "B">>), year |-> VInt(<<"1", "9", "9", "9">>),
      tags |-> VList(<<VStr(<<"a">>), VStr(<<"false">>)>>)],
     [sha1 |-> VStr(sha1), title |-> VStr(<<"!!perl/", "Boolean 0">>),
      slug |-> VStr(<<"o", "l", "d">>)]}

ChangeSet ==
    {[title |-> VStr(<<"P", "a">>)],
     [title |-> VStr(<<"a", "!!perl/", "Boolean 1">>), flag |-> VBool(TRUE)]}

\* A record file an older (Perl) producer wrote.
LegacyText(sha1) ==
    <<(<<"flag", ": ", "!!perl/", "scalar:", "Boolean 1">>),
      (<<"sha1", ": ">> \o sha1),
      (<<"title", ": ", "A", "b">>)>>

IdleProcs == [p \in Procs |-> "idle"]

\* No index is in use.
NoIndex ==
    /\ page = {}
    /\ fts_page = <<>>
    /\ meta = {}
    /\ fts = <<>>
    /\ asked = FALSE
    /\ mtime = <<>>
    /\ now = 0
    /\ ipc = "idle"
    /\ icall = <<>>
    /\ ilast = <<>>

InitCommon ==
    /\ litter = 0
    /\ pc = IdleProcs
    /\ op = [p \in Procs |-> NoOp]
    /\ loc = [p \in Procs |-> NoLoc]
    /\ last = [p \in Procs |-> NoLast]

\* The user the processes run as, and the owner, group and permissions of
\* the record file at the start.
Settings ==
    {[euid |-> "alice", uid |-> "alice", gid |-> "staff", perm |-> "0644"],
     [euid |-> "alice", uid |-> "bob", gid |-> "wheel", perm |-> "0644"],
     [euid |-> "root", uid |-> "bob", gid |-> "wheel", perm |-> "0600"]}

\* Both identities have a directory; only IdA has a record file, written
\* by the older producer.
Init ==
    /\ InitCommon
    /\ NoIndex
    /\ dirs = {DirOf(id) : id \in MetaIds}
    /\ \E s \in Settings :
          /\ euid = s.euid
          /\ files = (PathOf(IdA, meta_file) :> File(LegacyText(IdA), s.uid, s.gid, s.perm))

Begin(p, o, first, stk) ==
    /\ pc[p] = "idle"
    /\ UNCHANGED ixvars
    /\ pc' = [pc EXCEPT ![p] = first]
    /\ op' = [op EXCEPT ![p] = o]
    /\ loc' = [loc EXCEPT ![p] = [NoLoc EXCEPT !.stk = stk, !.info = o.info,
                                                 !.changes = o.changes]]
    /\ last' = [last EXCEPT ![p] = [NoLast EXCEPT !.prefiles = files, !.predirs = dirs,
                                                    !.prelitter = litter,
                                                    !.prev = PrevOf(last[p], o)]]
    /\ UNCHANGED <<dirs, files, litter, euid>>

CallReadMeta(p) ==
    \E sha1 \in MetaIds :
        Begin(p, [NoOp EXCEPT !.name = "read_meta", !.sha1 = sha1], "read_meta", <<>>)

CallWriteMeta(p) ==
    \E sha1 \in MetaIds : \E info \in InfoSet(sha1) :
        Begin(p, [NoOp EXCEPT !.name = "write_meta", !.sha1 = sha1, !.info = info],
              "write_meta", <<>>)

CallEditMeta(p) ==
    \E sha1 \in MetaIds, changes \in ChangeSet :
        Begin(p, [NoOp EXCEPT !.name = "edit_meta", !.sha1 = sha1, !.changes = changes],
              "read_meta", <<"edit_meta">>)

CallGetSlug(p) ==
    \E sha1 \in MetaIds, save \in BOOLEAN, overwrite \in BOOLEAN, ignore_saved \in BOOLEAN :
        Begin(p, [NoOp EXCEPT !.name = "get_slug", !.sha1 = sha1, !.save = save,
                               !.overwrite = overwrite, !.ignore_saved = ignore_saved],
              "read_meta", <<"get_slug">>)

\* The call of p ends: it returns (status "ok") or raises.
Finish(p, status, rec, value, left) ==
    /\ pc' = [pc EXCEPT ![p] = "idle"]
    /\ last' = [last EXCEPT ![p] =
                   [@ EXCEPT !.name = op[p].name, !.sha1 = op[p].sha1, !.info = op[p].info,
                             !.changes = op[p].changes, !.save = op[p].save,
                             !.overwrite = op[p].overwrite,
                             !.ignore_saved = op[p].ignore_saved,
                             !.status = status, !.rec = rec, !.value = value,
                             !.text = loc[p].text, !.wrote = loc[p].renamed]]
    /\ op' = [op EXCEPT ![p] = NoOp]
    /\ loc' = [loc EXCEPT ![p] = NoLoc]
    /\ litter' = litter + left
    /\ UNCHANGED <<dirs, euid>>

\* ------------------------------------------------------------- read_meta

\* Meta.read_meta on the files as they are: the path must exist, the file
\* is read, cleaned and loaded.
read_meta(sha1) ==
    LET g == meta_path(sha1)
    IN  IF g.status # "ok" THEN [status |-> "ValueError", rec |-> <<>>]
        ELSE IF g.fn \notin DOMAIN files \/ ~CanRead(files[g.fn])
        THEN [status |-> "IOError", rec |-> <<>>]
        ELSE LET l == ReadText(files[g.fn].content)
             IN  IF l.ok THEN [status |-> "ok", rec |-> l.rec]
                 ELSE [status |-> "YAMLError", rec |-> <<>>]

\* A call of read_meta returns or raises; the record goes to the caller
\* (edit_meta, get_slug or the user).
ReadMeta(p) ==
    /\ pc[p] = "read_meta"
    /\ UNCHANGED ixvars
    /\ UNCHANGED files
    /\ LET r == read_meta(op[p].sha1)
           stk == loc[p].stk
       IN  IF r.status # "ok" \/ stk = <<>> THEN Finish(p, r.status, r.rec, VNone, 0)
           ELSE /\ pc' = [pc EXCEPT ![p] = IF Head(stk) = "edit_meta"
                                           THEN "edit_merge" ELSE "slug_decide"]
                /\ loc' = [loc EXCEPT ![p].info = r.rec]
                /\ UNCHANGED <<dirs, litter, euid, op, last>>

\* ------------------------------------------------------------- edit_meta

\* Meta.edit_meta after its read_meta: the changes are applied to the
\* record read and the merged record goes to write_meta.
EditMerge(p) ==
    /\ pc[p] = "edit_merge"
    /\ UNCHANGED ixvars
    /\ pc' = [pc EXCEPT ![p] = "write_meta"]
    /\ loc' = [loc EXCEPT ![p].info = Merge(loc[p].info, loc[p].changes)]
    /\ UNCHANGED <<dirs, files, litter, euid, op, last>>

\* ------------------------------------------------------------ write_meta

\* Meta.write_meta up to the with statement: the path (which must exist)
\* and the serialized record.
WriteMeta(p) ==
    /\ pc[p] = "write_meta"
    /\ UNCHANGED ixvars
    /\ UNCHANGED files
    /\ LET g == meta_path(op[p].sha1)
       IN  IF g.status # "ok" THEN Finish(p, "ValueError", <<>>, VNone, 0)
           ELSE /\ pc' = [pc EXCEPT ![p] = "aw_stat"]
                /\ loc' = [loc EXCEPT ![p].fn = g.fn, ![p].text = YamlDump(loc[p].info),
                                      ![p].prior = files[g.fn]]
                /\ UNCHANGED <<dirs, litter, euid, op, last>>

\* atomic_write: owner, group and permissions are taken from the original
\* file, which must exist.
AwStat(p) ==
    /\ pc[p] = "aw_stat"
    /\ UNCHANGED ixvars
    /\ UNCHANGED files
    /\ LET fn == loc[p].fn
       IN  IF fn \notin DOMAIN files THEN Finish(p, "OSError", <<>>, VNone, 0)
           ELSE /\ pc' = [pc EXCEPT ![p] = "aw_mkstemp"]
                /\ loc' = [loc EXCEPT ![p].st = [uid |-> files[fn].uid, gid |-> files[fn].gid,
                                                 mod |-> S_IMODE(files[fn].mode)]]
                /\ UNCHANGED <<dirs, litter, euid, op, last>>

\* tempfile.mkstemp in the directory of the file: a new, empty file
AwMkstemp(p) ==
    /\ pc[p] = "aw_mkstemp"
    /\ UNCHANGED ixvars
    /\ pc' = [pc EXCEPT ![p] = "aw_write"]
    /\ loc' = [loc EXCEPT ![p].tmp = [made |-> TRUE, closed |-> FALSE, content |-> <<>>]]
    /\ UNCHANGED <<dirs, files, litter, euid, op, last>>

\* Lines written through a file object opened on the destination itself.
WrittenInPlace(tmp, dest, lines) == [tmp |-> tmp, dest |-> [dest EXCEPT !.content = lines]]

\* Where the lines written through f arrive: in the temporary file.
Written(tmp, dest, lines) == [tmp |-> [tmp EXCEPT !.content = lines], dest |-> dest]

\* f.write(info_str): the buffer reaches the file a line at a time
AwWrite(p) ==
    /\ pc[p] = "aw_write"
    /\ UNCHANGED ixvars
    /\ Len(loc[p].tmp.content) < Len(loc[p].text)
    /\ loc[p].fn \in DOMAIN files
    /\ LET n == Len(loc[p].tmp.content) + 1
           w == Written(loc[p].tmp, files[loc[p].fn], SubSeq(loc[p].text, 1, n))
       IN  /\ loc' = [loc EXCEPT ![p].tmp = w.tmp]
           /\ files' = [files EXCEPT ![loc[p].fn] = w.dest]
    /\ UNCHANGED <<dirs, litter, euid, pc, op, last>>

\* A close that loses what the buffer still holds.
ClosedUnflushed(tmp, lines) == [tmp EXCEPT !.closed = TRUE]

\* f.close(): what the buffer still holds is flushed, the file is closed.
Closed(tmp, lines) == [tmp EXCEPT !.content = lines, !.closed = TRUE]

\* The end of the inner with statement.
AwClose(p) ==
    /\ pc[p] = "aw_write"
    /\ UNCHANGED ixvars
    /\ pc' = [pc EXCEPT ![p] = "aw_replace"]
    /\ loc' = [loc EXCEPT ![p].tmp = Closed(loc[p].tmp, loc[p].text)]
    /\ UNCHANGED <<dirs, files, litter, euid, op, last>>

\* A file at the destination that lacks the last line of the temporary
\* file.
RenamedShort(tmp) == File(SubSeq(tmp.content, 1, Len(tmp.content) - 1), euid, egid, "0600")

\* The file at the destination after replace(tmp, filename): the
\* temporary file, which mkstemp made for its creator alone.
Renamed(tmp) == File(tmp.content, euid, egid, "0600")

\* replace(tmp, filename); tmp = None
AwReplace(p) ==
    /\ pc[p] = "aw_replace"
    /\ UNCHANGED ixvars
    /\ pc' = [pc EXCEPT ![p] = "aw_chown"]
    /\ files' = (loc[p].fn :> Renamed(loc[p].tmp)) @@ files
    /\ loc' = [loc EXCEPT ![p].tmp = NoTmp, ![p].renamed = TRUE]
    /\ UNCHANGED <<dirs, litter, euid, op, last>>

\* os.chown(filename, uid, gid)
AwChown(p) ==
    /\ pc[p] = "aw_chown"
    /\ UNCHANGED ixvars
    /\ LET fn == loc[p].fn
           st == loc[p].st
       IN  IF fn \in DOMAIN files /\ CanChown(files[fn], st.uid, st.gid)
           THEN /\ files' = [files EXCEPT ![fn].uid = st.uid, ![fn].gid = st.gid]
                /\ pc' = [pc EXCEPT ![p] = "aw_chmod"]
                /\ UNCHANGED <<dirs, litter, euid, op, loc, last>>
           ELSE /\ Finish(p, "OSError", <<>>, VNone, 0)
                /\ UNCHANGED files

\* A chmod that is left out.
ChmodKeepsTemp(f, mod) == f

\* os.chmod(filename, mod)

Chmod(f, mod) == [f EXCEPT !.mode.perm = mod]

\* atomic_write's chmod, its end and the returns of
\* write_meta, edit_meta and set_slug
AwChmod(p) ==
    /\ pc[p] = "aw_chmod"
    /\ UNCHANGED ixvars
    /\ LET fn == loc[p].fn
           stk == loc[p].stk
       IN  IF fn \in DOMAIN files /\ CanChmod(files[fn])
           THEN /\ files' = [files EXCEPT ![fn] = Chmod(files[fn], loc[p].st.mod)]
                /\ IF Len(stk) > 1 THEN Finish(p, "ok", <<>>, loc[p].slug, 0)
                   ELSE Finish(p, "ok", loc[p].info, VNone, 0)
           ELSE /\ Finish(p, "OSError", <<>>, VNone, 0)
                /\ UNCHANGED files

\* An exception or an interruption at any statement of a call.  A
\* temporary file that exists is kept (keep=True).
Fail(p) ==
    /\ pc[p] # "idle"
    /\ UNCHANGED ixvars
    /\ LET left == IF loc[p].tmp.made THEN 1 ELSE 0
       IN  /\ litter + left <= MaxLitter
           /\ Finish(p, "Interrupted", <<>>, VNone, left)
    /\ UNCHANGED files

\* ---------------------------------------------------------------- get_slug

\* Meta.get_slug after its read_meta.
SlugDecide(p) ==
    /\ pc[p] = "slug_decide"
    /\ UNCHANGED ixvars
    /\ UNCHANGED files
    /\ LET o == op[p]
           info == loc[p].info
           d == SlugDecision(info, o.sha1, o.save, o.overwrite, o.ignore_saved)
           stored == Get(info, "slug", VNone)
       IN  IF ~(Truthy(stored) /\ d.value = stored /\ ~d.persist) /\ ~SlugInputsOk(info)
           THEN Finish(p, "AttributeError", <<>>, VNone, 0)
           ELSE IF d.persist
           THEN /\ pc' = [pc EXCEPT ![p] = "read_meta"]
                /\ loc' = [loc EXCEPT ![p].stk = <<"edit_meta", "set_slug">>,
                                      ![p].changes = [slug |-> d.value],
                                      ![p].slug = d.value]
                /\ UNCHANGED <<dirs, litter, euid, op, last>>
           ELSE Finish(p, "ok", <<>>, d.value, 0)

\* -------------------------------------------------------- specifications

Writers == {"w1"}

Next ==
    \E p \in Writers :
        \/ CallReadMeta(p)
        \/ CallWriteMeta(p)
        \/ CallEditMeta(p)
        \/ CallGetSlug(p)
        \/ ReadMeta(p)
        \/ EditMerge(p)
        \/ WriteMeta(p)
        \/ AwStat(p)
        \/ AwMkstemp(p)
        \/ AwWrite(p)
        \/ AwClose(p)
        \/ AwReplace(p)
        \/ AwChown(p)
        \/ AwChmod(p)
        \/ SlugDecide(p)
        \/ Fail(p)

\* The metadata store used by one process.
Spec == Init /\ [][Next]_vars

\* ---------------------------------------------------- the identity field

\* Records and changes a caller can pass: a record with no sha1 field, a
\* change of a title, a change of the sha1 field.
BareInfos == {[title |-> VStr(<<"P", "a">>)]}

IdentityChanges == {[title |-> VStr(<<"P", "a">>)], [sha1 |-> VStr(IdB)], [sha1 |-> VStr(IdA)]}

CallWriteMetaAny(p) ==
    \E sha1 \in MetaIds : \E info \in InfoSet(sha1) \cup BareInfos :
        Begin(p, [NoOp EXCEPT !.name = "write_meta", !.sha1 = sha1, !.info = info],
              "write_meta", <<>>)

CallEditMetaAny(p) ==
    \E sha1 \in MetaIds, changes \in IdentityChanges :
        Begin(p, [NoOp EXCEPT !.name = "edit_meta", !.sha1 = sha1, !.changes = changes],
              "read_meta", <<"edit_meta">>)

NextIdentity ==
    \E p \in Writers :
        \/ CallWriteMetaAny(p)
        \/ CallEditMetaAny(p)
        \/ ReadMeta(p)
        \/ EditMerge(p)
        \/ WriteMeta(p)
        \/ AwStat(p)
        \/ AwMkstemp(p)
        \/ AwWrite(p)
        \/ AwClose(p)
        \/ AwReplace(p)
        \/ AwChown(p)
        \/ AwChmod(p)

\* Sequences of write_meta and edit_meta calls by one process.
SpecIdentity == Init /\ [][NextIdentity]_vars

\* ------------------------------------------------------- concurrent edits

\* The changes of the two writers: disjoint keys.
EditsOf(p) ==
    IF p = "w1" THEN [title |-> VStr(<<"P", "a">>)]
    ELSE [year |-> VInt(<<"1", "9", "9", "9">>)]

\* Each writer calls edit_meta once, on the record of IdA.
CallEditOnce(p) ==
    /\ last[p].name = ""
    /\ Begin(p, [NoOp EXCEPT !.name = "edit_meta", !.sha1 = IdA, !.changes = EditsOf(p)],
             "read_meta", <<"edit_meta">>)

NextEdits ==
    \E p \in Procs :
        \/ CallEditOnce(p)
        \/ ReadMeta(p)
        \/ EditMerge(p)
        \/ WriteMeta(p)
        \/ AwStat(p)
        \/ AwMkstemp(p)
        \/ AwWrite(p)
        \/ AwClose(p)
        \/ AwReplace(p)
        \/ AwChown(p)
        \/ AwChmod(p)

\* Two processes edit one record, their steps interleaved.
SpecEdits == Init /\ [][NextEdits]_vars

\* ------------------------------------------------------------ expand_sha1

\* The identities archived in the expansion runs: two that share their
\* first four characters, two that share five, one that shares only the
\* shard with them and one in another shard.
ExpandIds ==
    {IdA, IdB, MkId(<<"a", "b", "c", "d", "e", "1">>), MkId(<<"a", "b", "0", "1">>),
     MkId(<<"f", "f", "0", "1">>)}

PrefixLens == {3, 4, 5, 6, 39, 40}

Prefixes ==
    {SubSeq(id, 1, n) : id \in ExpandIds, n \in PrefixLens}
        \cup {<<"a", "b", "c", "c">>, <<"a", "b", "c", "d", "0">>, <<"c", "c", "c", "c", "c">>}

InitExpand ==
    /\ InitCommon
    /\ NoIndex
    /\ euid = "alice"
    /\ dirs = {}
    /\ files = <<>>

\* Archiver._maybe_mkdir: the shard directory and the directory of the
\* identity are made when they do not exist.
_maybe_mkdir(p) ==
    /\ pc[p] = "idle"
    /\ UNCHANGED ixvars
    /\ \E sha1 \in ExpandIds :
          dirs' = dirs \cup {ArchiveDirs(basedir, sha1).subdir_path,
                             ArchiveDirs(basedir, sha1).dir_path}
    /\ last' = [last EXCEPT ![p] = NoLast]
    /\ UNCHANGED <<files, litter, euid, pc, op, loc>>

\* A call of Meta.expand_sha1.
ExpandSha1(p) ==
    /\ pc[p] = "idle"
    /\ UNCHANGED ixvars
    /\ \E short \in Prefixes :
          LET r == expand_sha1(dirs, short)
          IN  last' = [last EXCEPT ![p] =
                          [NoLast EXCEPT !.name = "expand_sha1", !.sha1 = short,
                                         !.status = r.status, !.value = VStr(r.value),
                                         !.predirs = dirs]]
    /\ UNCHANGED <<dirs, files, litter, euid, pc, op, loc>>

NextExpand == \E p \in Writers : _maybe_mkdir(p) \/ ExpandSha1(p)

\* Archiving and prefix expansion.
SpecExpand == InitExpand /\ [][NextExpand]_vars

\* ------------------------------------------------------------ the layout

\* The base directories of the collections, and the identities laid out.
LayoutBases == {basedir, <<"other">>}

LayoutIds == {IdA, IdB, MkId(<<"f", "f", "0", "1">>)}

\* What a call that computes a directory leaves: the base, the identity
\* and the directory.
Computed(name, base, sha1, status, dirname) ==
    [NoLast EXCEPT !.name = name, !.sha1 = sha1, !.status = status,
                   !.rec = [basedir |-> base, dirname |-> dirname], !.predirs = dirs]

\* Meta.get_path(sha1, 'meta_file', must_exist) of a Meta on a base
LayoutGetPath(p) ==
    /\ pc[p] = "idle"
    /\ UNCHANGED ixvars
    /\ \E base \in LayoutBases, sha1 \in LayoutIds, must_exist \in BOOLEAN :
          LET fn == PathIn(base, sha1, meta_file)
          IN  last' = [last EXCEPT ![p] =
                          IF must_exist /\ ~Exists(fn)
                          THEN Computed("get_path", base, sha1, "ValueError", <<>>)
                          ELSE Computed("get_path", base, sha1, "ok", DirName(fn))]
    /\ UNCHANGED <<dirs, files, litter, euid, pc, op, loc>>

\* FTS._bundleinfo(sha1) of an FTS on a base: None unless the directory
\* exists
LayoutBundleinfo(p) ==
    /\ pc[p] = "idle"
    /\ UNCHANGED ixvars
    /\ \E base \in LayoutBases, sha1 \in LayoutIds :
          LET dirname == BundleDir(base, sha1)
          IN  last' = [last EXCEPT ![p] =
                          IF dirname \notin dirs
                          THEN Computed("_bundleinfo", base, sha1, "None", <<>>)
                          ELSE IF dirname \o <<meta_file>> \notin DOMAIN files
                          THEN Computed("_bundleinfo", base, sha1, "OSError", <<>>)
                          ELSE Computed("_bundleinfo", base, sha1, "ok", dirname)]
    /\ UNCHANGED <<dirs, files, litter, euid, pc, op, loc>>

\* Archiver._maybe_mkdir(sha1) of an Archiver on a base
LayoutMkdir(p) ==
    /\ pc[p] = "idle"
    /\ UNCHANGED ixvars
    /\ \E base \in LayoutBases, sha1 \in LayoutIds :
          LET a == ArchiveDirs(base, sha1)
          IN  /\ dirs' = dirs \cup {a.subdir_path, a.dir_path}
              /\ last' = [last EXCEPT ![p] =
                             Computed("_maybe_mkdir", base, sha1, "ok", a.dir_path)]
    /\ UNCHANGED <<files, litter, euid, pc, op, loc>>

\* A record file appears in a directory that exists (an archive run wrote
\* it).
LayoutRecord(p) ==
    /\ pc[p] = "idle"
    /\ UNCHANGED ixvars
    /\ \E base \in LayoutBases, sha1 \in LayoutIds :
          /\ DirName(PathIn(base, sha1, meta_file)) \in dirs
          /\ PathIn(base, sha1, meta_file) \notin DOMAIN files
          /\ files' = (PathIn(base, sha1, meta_file) :> File(LegacyText(sha1), euid, egid, "0644"))
                         @@ files
    /\ UNCHANGED <<dirs, litter, euid, pc, op, loc, last>>

NextLayout ==
    \E p \in Writers :
        LayoutGetPath(p) \/ LayoutBundleinfo(p) \/ LayoutMkdir(p) \/ LayoutRecord(p)

\* The directories the metadata store, the index engine and the archiver
\* compute, as the collection fills.
SpecLayout == InitExpand /\ [][NextLayout]_vars

\* ----------------------------------------------------------- index: text

\* \s of Python's re, as far as the texts here go
IsSpace(c) == c \in {" ", "\n"}

\* A tag, which re.sub(r'<[^>]*>', ' ', s) replaces by a blank
IsTag(c) == c \in {"<b>", "</b>"}

\* str.lower()
Lower(s) == [i \in 1..Len(s) |-> LowerChar(s[i])]

\* s without its leading whitespace
RECURSIVE LStrip(_)
LStrip(s) == IF s # <<>> /\ IsSpace(Head(s)) THEN LStrip(Tail(s)) ELSE s

\* s without its trailing whitespace
RECURSIVE RStrip(_)
RStrip(s) ==
    IF s # <<>> /\ IsSpace(s[Len(s)]) THEN RStrip(SubSeq(s, 1, Len(s) - 1)) ELSE s

\* re.sub(r'\s+', ' ', s)
RECURSIVE CollapseSpace(_)
CollapseSpace(s) ==
    IF s = <<>> THEN <<>>
    ELSE IF IsSpace(Head(s)) THEN <<" ">> \o CollapseSpace(LStrip(s))
    ELSE <<Head(s)>> \o CollapseSpace(Tail(s))

\* FTS._munge_text for texts without script or style elements, without
\* words hyphenated at a line end and without anything for ftfy to fix:
\* tags become blanks, whitespace is collapsed and stripped, the text is
\* lowercased.
_munge_text(s) ==
    LET untagged == [i \in 1..Len(s) |-> IF IsTag(s[i]) THEN " " ELSE s[i]]
    IN  Lower(RStrip(LStrip(CollapseSpace(untagged))))

\* The number of characters before the first whitespace of s.
RECURSIVE WordLen(_)
WordLen(s) == IF s = <<>> \/ IsSpace(Head(s)) THEN 0 ELSE 1 + WordLen(Tail(s))

KeywordOr == <<"O", "R">>

KeywordAnd == <<"A", "N", "D">>

\* re.search(r' (?:OR|AND) ', query)
HaveBooleans(query) ==
    \E i \in 1..Len(query) :
        LET rest == SubSeq(query, i, Len(query))
        IN  \/ StartsWith(rest, <<" ">> \o KeywordOr \o <<" ">>)
            \/ StartsWith(rest, <<" ">> \o KeywordAnd \o <<" ">>)

\* re.match(r'(OR|AND)\s+', query): the keyword, or <<>>
BoolAtStart(query) ==
    IF \E kw \in {KeywordOr, KeywordAnd} :
          /\ Len(query) > Len(kw)
          /\ StartsWith(query, kw)
          /\ IsSpace(query[Len(kw) + 1])
    THEN SubSeq(query, 1, WordLen(query))
    ELSE <<>>

\* re.match(r'\s*(\S+)\s+', query): the word, or <<>>
WordAtStart(query) ==
    LET q == LStrip(query)
        n == WordLen(q)
    IN  IF n > 0 /\ n < Len(q) THEN SubSeq(q, 1, n) ELSE <<>>

\* A pass whose word branch copies the word to lquery and leaves it at the
\* start of the query.
PrepareIterKeep(query, lquery) ==
    IF BoolAtStart(query) # <<>>
    THEN LET kw == BoolAtStart(query)
         IN  [query |-> LStrip(SubSeq(query, Len(kw) + 1, Len(query))),
              lquery |-> IF kw = KeywordOr THEN lquery \o KeywordOr \o <<" ">> ELSE lquery,
              left |-> FALSE]
    ELSE IF WordAtStart(query) # <<>>
    THEN [query |-> query,
          lquery |-> lquery \o Lower(WordAtStart(query)) \o <<" ">>,
          left |-> FALSE]
    ELSE [query |-> query, lquery |-> lquery \o query, left |-> TRUE]

\* One pass of the body of the while loop of _prepare_query: the query
\* that remains, lquery, and whether the pass left the loop by break.
PrepareIter(query, lquery) ==
    IF BoolAtStart(query) # <<>>
    THEN LET kw == BoolAtStart(query)
         IN  [query |-> LStrip(SubSeq(query, Len(kw) + 1, Len(query))),
              lquery |-> IF kw = KeywordOr THEN lquery \o KeywordOr \o <<" ">> ELSE lquery,
              left |-> FALSE]
    ELSE IF WordAtStart(query) # <<>>
    THEN LET q == LStrip(query)
             w == WordAtStart(query)
         IN  [query |-> LStrip(SubSeq(q, Len(w) + 1, Len(q))),
              lquery |-> lquery \o Lower(w) \o <<" ">>,
              left |-> FALSE]
    ELSE [query |-> query, lquery |-> lquery \o query, left |-> TRUE]

\* The while loop of _prepare_query.
RECURSIVE PrepareLoop(_, _)
PrepareLoop(query, lquery) ==
    IF query = <<>> THEN lquery
    ELSE LET it == PrepareIter(query, lquery)
         IN  IF it.left THEN it.lquery ELSE PrepareLoop(it.query, it.lquery)

\* FTS._prepare_query
_prepare_query(query) ==
    IF ~HaveBooleans(query) THEN Lower(query) ELSE PrepareLoop(query, <<>>)

\* --------------------------------------------------------- index: tables

\* select page_id from page where file_name = ?
SelectPageId(pg, file_name) == {r.page_id : r \in {x \in pg : x.file_name = file_name}}

\* select page_id from page where folder_sha1 = ?
SelectByFolder(pg, sha1) == {r.page_id : r \in {x \in pg : x.folder_sha1 = sha1}}

\* The rowid SQLite gives to a row inserted into an integer primary key
\* table without one: the largest in the table plus one.
NextRowid(pg) ==
    IF pg = {} THEN 1
    ELSE (CHOOSE r \in pg : \A x \in pg : x.page_id <= r.page_id).page_id + 1

\* insert into page (folder_sha1, file_name) values (?, ?), under the
\* table's unique (file_name)
InsertPage(pg, folder_sha1, file_name) ==
    IF SelectPageId(pg, file_name) # {}
    THEN [status |-> "IntegrityError", page |-> pg, lastrowid |-> 0]
    ELSE [status |-> "ok",
          page |-> pg \cup {[page_id |-> NextRowid(pg), folder_sha1 |-> folder_sha1,
                             file_name |-> file_name]},
          lastrowid |-> NextRowid(pg)]

\* insert into fts_page (rowid, file_contents) values (?, ?)
InsertFts(ft, rowid, text) ==
    IF rowid \in DOMAIN ft THEN [status |-> "IntegrityError", fts_page |-> ft]
    ELSE [status |-> "ok", fts_page |-> (rowid :> text) @@ ft]

\* update fts_page set file_contents = ? where rowid = ?
UpdateFts(ft, rowid, text) == [r \in DOMAIN ft |-> IF r = rowid THEN text ELSE ft[r]]

\* delete from page where page_id = ?: the table and the rowcount
DeletePage(pg, page_id) ==
    [page |-> {r \in pg : r.page_id # page_id},
     rowcount |-> Cardinality({r \in pg : r.page_id = page_id})]

\* ---------------------------------------------------- index: FTS object

\* The database file, <basedir>/var/index.sqlite
dbfile == <<basedir, <<"var">>, <<"index.sqlite">>>>

\* The attributes FTS.__init__ sets.  The force_update argument is not
\* among them: the constructor never assigns it.
FtsNew(createdb, db_mtime, force_update) ==
    [basedir |-> basedir, db |-> dbfile, reftime |-> IF createdb THEN 0 ELSE db_mtime]

\* self.<name>: the value, or AttributeError when the object has no such
\* attribute
GetAttr(o, name) ==
    IF name \in DOMAIN o THEN [status |-> "ok", value |-> o[name]]
    ELSE [status |-> "AttributeError", value |-> FALSE]

\* The read of self.force_update on an object on which somebody has set
\* the attribute to True.
SelfForceUpdateSet(o) == [status |-> "ok", value |-> TRUE]

\* self.force_update, as index_bundle and index_page read it
SelfForceUpdate(o) == GetAttr(o, "force_update")

\* A delete that leaves the text index alone.
DeleteFtsNothing(ft, rowid) == ft

\* delete from fts_page where rowid = ?
DeleteFts(ft, rowid) == [r \in DOMAIN ft \ {rowid} |-> ft[r]]

\* ----------------------------------------------------------- index: calls

\* The latest time and the largest rowid the model follows.
MaxNow == 2

MaxRowid == 3

\* Page numbers, as in <sha1>.page_0001.txt
PageNums == {"0001", "0002"}

PageName(sha1, n) == <<sha1, ".page_", n, ".txt">>

\* re.search('page_\d+\.txt$', fn)
IsPageFile(fn) == Len(fn) = 4 /\ fn[2] = ".page_" /\ fn[3] \in PageNums /\ fn[4] = ".txt"

\* The text of a page as pdftotext left it.
PageText(n) ==
    IF n = "0001" THEN <<"C", "a", "t", "s", "\n">>
    ELSE <<"<b>", "D", "o", "g", "s", "</b>", " ", " ", "A">>

\* The page files of an unpacked bundle.
Unpacked(sha1) ==
    [fn \in {PathOf(sha1, PageName(sha1, n)) : n \in PageNums} |->
        File(PageText(fn[4][3]), "alice", "staff", "0644")]

\* The orders in which os.listdir can give a set of names.
Orders(names) ==
    {q \in [1..Cardinality(names) -> names] :
        \A i, j \in 1..Cardinality(names) : i # j => q[i] # q[j]}

\* The order in which os.listdir gives the names of a directory: an
\* arbitrary one, the same whenever the directory holds the same names.
ListDir(names) == CHOOSE q \in Orders(names) : TRUE

\* page_id=None and file_name=None
NoPageId == 0

NoFileName == <<>>

\* The page_id arguments of the delete_page calls.
PageIds == {1, 2}

\* The tables as a call finds them.
Tables == [page |-> page, fts_page |-> fts_page, meta |-> meta]

\* The running call: its arguments and locals, the callee it is in (stk),
\* how many statements of it have changed rows, and the tables as it found
\* them.
NoICall ==
    [name |-> "", sha1 |-> <<>>, file_name |-> NoFileName, text |-> <<>>,
     page_id |-> NoPageId, meta_only |-> FALSE, force_update |-> FALSE, query |-> <<>>,
     rowid |-> NoPageId, stk |-> <<>>, todo |-> <<>>, need_make |-> FALSE,
     writes |-> 0, ret |-> 0,
     search_meta |-> FALSE, group_by_sha1 |-> FALSE, meta_res |-> <<>>,
     rest |-> <<>>, lquery |-> <<>>,
     follows |-> FALSE, pre |-> [page |-> {}, fts_page |-> <<>>, meta |-> {}]]

\* The call completed last: what it was, how it ended, what it returned,
\* how many of its statements changed rows.
NoILast ==
    [name |-> "", sha1 |-> <<>>, query |-> <<>>,
     status |-> "", value |-> <<>>, ret |-> 0, writes |-> 0,
     search_meta |-> FALSE, group_by_sha1 |-> FALSE,
     follows |-> FALSE, quiet |-> FALSE]

IxIds == {IdA, IdB}

IxFileNames == {PageName(IdA, n) : n \in PageNums}

IxTexts == {PageText(n) : n \in PageNums}

\* A call of the index begins.  It follows the call before it when both
\* are index_bundle of the same identity, the first ran to its end, and
\* neither the bundle nor the FTS object changed in between.
IxBegin(o, first) ==
    /\ ipc = "idle"
    /\ ipc' = first
    /\ icall' = [o EXCEPT !.pre = Tables,
                           !.follows = /\ o.name = "index_bundle"
                                       /\ ilast.name = "index_bundle"
                                       /\ ilast.sha1 = o.sha1
                                       /\ ilast.status # "Interrupted"
                                       /\ ilast.quiet]
    /\ ilast' = NoILast
    /\ UNCHANGED <<page, fts_page, meta, fts, asked, mtime, now>>
    /\ UNCHANGED fsvars

\* The call ends: it returns (status "ok") or raises.
IxFinish(status, value, ret, wrote) ==
    /\ ipc' = "idle"
    /\ icall' = NoICall
    /\ ilast' = [name |-> icall.name, sha1 |-> icall.sha1, query |-> icall.query,
                 status |-> status, value |-> value, ret |-> ret,
                 writes |-> icall.writes + wrote,
                 search_meta |-> icall.search_meta, group_by_sha1 |-> icall.group_by_sha1,
                 follows |-> icall.follows, quiet |-> TRUE]

\* A call made by index_bundle or expunge returns to its caller, or the
\* exception it raises ends the caller too (no caller catches any).
IxReturn(status, ret, wrote) ==
    IF icall.stk = <<>> \/ status # "ok" THEN IxFinish(status, <<>>, ret, wrote)
    ELSE /\ ipc' = IF Head(icall.stk) = "index_bundle" THEN "ib_loop" ELSE "ex_loop"
         /\ icall' = [icall EXCEPT !.stk = <<>>, !.file_name = NoFileName, !.text = <<>>,
                                    !.page_id = NoPageId, !.rowid = NoPageId, !.ret = 0,
                                    !.writes = @ + wrote]
         /\ UNCHANGED ilast

\* dbh.commit() after a statement that changed rows: the database file is
\* written.
Commit(changed) == mtime' = IF changed THEN [mtime EXCEPT ![dbfile] = now] ELSE mtime

\* ------------------------------------------------------------- index_page

CallIndexPage ==
    \E folder_sha1 \in {IdA}, file_name \in IxFileNames, text \in IxTexts :
        IxBegin([NoICall EXCEPT !.name = "index_page", !.sha1 = folder_sha1,
                                !.file_name = file_name, !.text = text], "ip_select")

\* FTS.index_page up to its first write: the lookup of the file name, the
\* skip, and the update of the text of a page that exists.
IndexPageSelect ==
    /\ ipc = "ip_select"
    /\ UNCHANGED <<page, meta, fts, asked, now>>
    /\ UNCHANGED fsvars
    /\ LET found == SelectPageId(page, icall.file_name)
           force_update == SelfForceUpdate(fts)
       IN  IF found = {}
           THEN /\ ipc' = "ip_insert_page"
                /\ UNCHANGED <<fts_page, mtime, icall, ilast>>
           ELSE IF force_update.status # "ok"
           THEN /\ IxReturn(force_update.status, 0, 0)
                /\ UNCHANGED <<fts_page, mtime>>
           ELSE IF ~force_update.value
           THEN /\ IxReturn("ok", 0, 0)
                /\ UNCHANGED <<fts_page, mtime>>
           ELSE /\ fts_page' = UpdateFts(fts_page, CHOOSE id \in found : TRUE,
                                          _munge_text(icall.text))
                /\ Commit(TRUE)
                /\ IxReturn("ok", 0, 1)

\* insert into page ...; page_id = lastrowid
IndexPageInsertPage ==
    /\ ipc = "ip_insert_page"
    /\ NextRowid(page) <= MaxRowid
    /\ UNCHANGED <<fts_page, meta, fts, asked, now>>
    /\ UNCHANGED fsvars
    /\ LET r == InsertPage(page, icall.sha1, icall.file_name)
       IN  IF r.status # "ok"
           THEN /\ IxReturn(r.status, 0, 0)
                /\ UNCHANGED <<page, mtime>>
           ELSE /\ page' = r.page
                /\ Commit(TRUE)
                /\ ipc' = "ip_insert_fts"
                /\ icall' = [icall EXCEPT !.rowid = r.lastrowid, !.writes = @ + 1]
                /\ UNCHANGED ilast

\* insert into fts_page (rowid, file_contents) ...
IndexPageInsertFts ==
    /\ ipc = "ip_insert_fts"
    /\ UNCHANGED <<page, meta, fts, asked, now>>
    /\ UNCHANGED fsvars
    /\ LET r == InsertFts(fts_page, icall.rowid, _munge_text(icall.text))
       IN  IF r.status # "ok"
           THEN /\ IxReturn(r.status, 0, 0)
                /\ UNCHANGED <<fts_page, mtime>>
           ELSE /\ fts_page' = r.fts_page
                /\ Commit(TRUE)
                /\ IxReturn("ok", 0, 1)

\* ------------------------------------------------------------ delete_page

NeedEither == "RuntimeError: Need either page_id or file_name for delete_page"

CouldNotFind == "RuntimeError: Could not find page_id based on file_name"

\* if not page_id or file_name: raise RuntimeError(...)
DeletePageGuard(page_id, file_name) == page_id = NoPageId \/ file_name # NoFileName

CallDeletePage ==
    \E page_id \in {NoPageId} \cup PageIds, file_name \in {NoFileName, PageName(IdA, "0001")} :
        IxBegin([NoICall EXCEPT !.name = "delete_page", !.page_id = page_id,
                                !.file_name = file_name], "dp_page")

\* FTS.delete_page up to its first statement: the argument check, the
\* lookup by file name, delete from page where page_id = ?
DeletePagePage ==
    /\ ipc = "dp_page"
    /\ UNCHANGED <<fts_page, meta, fts, asked, now>>
    /\ UNCHANGED fsvars
    /\ LET found == SelectPageId(page, icall.file_name)
           page_id == IF icall.page_id # NoPageId THEN icall.page_id
                      ELSE IF found # {} THEN CHOOSE id \in found : TRUE
                      ELSE NoPageId
           r == DeletePage(page, page_id)
       IN  IF DeletePageGuard(icall.page_id, icall.file_name)
           THEN /\ IxReturn(NeedEither, 0, 0)
                /\ UNCHANGED <<page, mtime>>
           ELSE IF icall.page_id = NoPageId /\ found = {}
           THEN /\ IxReturn(CouldNotFind, 0, 0)
                /\ UNCHANGED <<page, mtime>>
           ELSE /\ page' = r.page
                /\ Commit(r.rowcount > 0)
                /\ ipc' = "dp_fts"
                /\ icall' = [icall EXCEPT !.rowid = page_id, !.ret = r.rowcount,
                                           !.writes = @ + r.rowcount]
                /\ UNCHANGED ilast

\* delete from fts_page where rowid = ?; return int(ret) if ret else 0
DeletePageFts ==
    /\ ipc = "dp_fts"
    /\ UNCHANGED <<page, meta, fts, asked, now>>
    /\ UNCHANGED fsvars
    /\ fts_page' = DeleteFts(fts_page, icall.rowid)
    /\ Commit(fts_page' # fts_page)
    /\ IxReturn("ok", icall.ret, IF fts_page' # fts_page THEN 1 ELSE 0)

\* ---------------------------------------------------------------- expunge

\* if not sha1 and len(sha1) == 40: return
ExpungeGuard(sha1) == sha1 = <<>> /\ Len(sha1) = ShaLen

\* The rows of a select, in rowid order.
RECURSIVE InOrder(_)
InOrder(ids) ==
    IF ids = {} THEN <<>>
    ELSE LET least == CHOOSE i \in ids : \A j \in ids : i <= j
         IN  <<least>> \o InOrder(ids \ {least})

CallExpunge ==
    \E sha1 \in IxIds, meta_only \in BOOLEAN :
        IxBegin([NoICall EXCEPT !.name = "expunge", !.sha1 = sha1,
                                !.meta_only = meta_only], "ex_start")

\* FTS.expunge up to its loop: the guard and the select of the pages
ExpungeStart ==
    /\ ipc = "ex_start"
    /\ UNCHANGED <<page, fts_page, meta, fts, asked, mtime, now>>
    /\ UNCHANGED fsvars
    /\ IF ExpungeGuard(icall.sha1) THEN IxFinish("ok", <<>>, 0, 0)
       ELSE /\ ipc' = "ex_loop"
            /\ icall' = [icall EXCEPT
                            !.todo = IF icall.meta_only THEN <<>>
                                     ELSE InOrder(SelectByFolder(page, icall.sha1))]
            /\ UNCHANGED ilast

\* for row in found: self.delete_page(row['page_id']); after the loop,
\* do_sql("delete from meta where folder_sha1 = ?", [sha1]): the statement
\* is passed where do_sql takes the connection, and str has no cursor().
ExpungeLoop ==
    /\ ipc = "ex_loop"
    /\ UNCHANGED <<page, fts_page, meta, fts, asked, mtime, now>>
    /\ UNCHANGED fsvars
    /\ IF icall.todo = <<>> THEN IxFinish("AttributeError", <<>>, 0, 0)
       ELSE /\ ipc' = "dp_page"
            /\ icall' = [icall EXCEPT !.stk = <<"expunge">>, !.page_id = Head(icall.todo),
                                       !.todo = Tail(icall.todo)]
            /\ UNCHANGED ilast

\* ------------------------------------------------------------- index_meta

\* The columns of table meta (_create_schema).
MetaColumns ==
    {"meta_id", "folder_sha1", "author", "title", "subtitle", "year", "pages",
     "summary", "isbn", "doi", "ts"}

\* select * from meta where <column> = ?
SelectMeta(mt, column, val) ==
    IF column \notin MetaColumns THEN [status |-> "OperationalError", rows |-> {}]
    ELSE [status |-> "ok", rows |-> {r \in mt : r[column] = val}]

\* FTS._bundleinfo: the directory must exist (else None is returned, which
\* the callers cannot unpack) and meta.yml is stat'ed.
_bundleinfo(sha1) ==
    IF BundleDir(basedir, sha1) \notin dirs THEN [status |-> "TypeError", mod_dir |-> 0, mod_meta |-> 0]
    ELSE IF PathOf(sha1, meta_file) \notin DOMAIN files
    THEN [status |-> "OSError", mod_dir |-> 0, mod_meta |-> 0]
    ELSE [status |-> "ok", mod_dir |-> mtime[DirOf(sha1)],
          mod_meta |-> mtime[PathOf(sha1, meta_file)]]

CallIndexMeta ==
    \E sha1 \in IxIds, force_update \in BOOLEAN :
        IxBegin([NoICall EXCEPT !.name = "index_meta", !.sha1 = sha1,
                                !.force_update = force_update], "im_select")

core_fields == <<"author", "title", "subtitle", "year", "pages", "summary", "isbn", "doi">>

\* The columns and the number of placeholders of the insert statement of
\* index_meta, and the number of values bound to it (the core fields and
\* mod_meta).
InsertMetaColumns == <<"filder_sha1">> \o core_fields \o <<"ts">>

InsertMetaPlaceholders == 10

InsertMetaBound == Len(core_fields) + 1

\* insert into meta (...) values (...)
InsertMeta(mt, sha1, mi, mod_meta) ==
    IF \E i \in 1..Len(InsertMetaColumns) : InsertMetaColumns[i] \notin MetaColumns
    THEN [status |-> "OperationalError", meta |-> mt]
    ELSE IF InsertMetaPlaceholders # InsertMetaBound
    THEN [status |-> "ProgrammingError", meta |-> mt]
    ELSE [status |-> "ok",
          meta |-> mt \cup {[meta_id |-> Cardinality(mt) + 1, folder_sha1 |-> sha1,
                             fields |-> mi, ts |-> mod_meta]}]

\* FTS.index_meta: _bundleinfo, select * from meta where folder = ?, the
\* record is read, then the insert when no row was found; for a row that
\* was found, rec.get is called on a sqlite3.Row, which has no get.
IndexMeta ==
    /\ ipc = "im_select"
    /\ UNCHANGED <<page, fts_page, fts, asked, now>>
    /\ UNCHANGED fsvars
    /\ LET b == _bundleinfo(icall.sha1)
           found == SelectMeta(meta, "folder", icall.sha1)
           mi == read_meta(icall.sha1)
           ins == InsertMeta(meta, icall.sha1, mi.rec, b.mod_meta)
       IN  IF b.status # "ok"
           THEN IxFinish(b.status, <<>>, 0, 0) /\ UNCHANGED <<meta, mtime>>
           ELSE IF found.status # "ok"
           THEN IxFinish(found.status, <<>>, 0, 0) /\ UNCHANGED <<meta, mtime>>
           ELSE IF mi.status # "ok"
           THEN IxFinish(mi.status, <<>>, 0, 0) /\ UNCHANGED <<meta, mtime>>
           ELSE IF found.rows # {}
           THEN IxFinish("AttributeError", <<>>, 0, 0) /\ UNCHANGED <<meta, mtime>>
           ELSE /\ meta' = ins.meta
                /\ Commit(ins.status = "ok")
                /\ IxFinish(ins.status, <<>>, 0, IF ins.status = "ok" THEN 1 ELSE 0)

\* ----------------------------------------------------------- index_bundle

CallIndexBundle ==
    \E sha1 \in IxIds :
        IxBegin([NoICall EXCEPT !.name = "index_bundle", !.sha1 = sha1], "ib_start")

\* FTS.index_bundle up to need_make: _bundleinfo and the staleness check
IndexBundleStart ==
    /\ ipc = "ib_start"
    /\ UNCHANGED <<page, fts_page, meta, fts, asked, mtime, now>>
    /\ UNCHANGED fsvars
    /\ LET b == _bundleinfo(icall.sha1)
           reftime == GetAttr(fts, "reftime")
           force_update == SelfForceUpdate(fts)
       IN  IF b.status # "ok" THEN IxFinish(b.status, <<>>, 0, 0)
           ELSE IF reftime.value > b.mod_dir /\ reftime.value > b.mod_meta
           THEN IF force_update.status # "ok" THEN IxFinish(force_update.status, <<>>, 0, 0)
                ELSE IF ~force_update.value THEN IxFinish("ok", <<>>, 0, 0)
                ELSE ipc' = "ib_make" /\ UNCHANGED <<icall, ilast>>
           ELSE ipc' = "ib_make" /\ UNCHANGED <<icall, ilast>>

\* need_make, os.system("make") in the directory when the first page file
\* is not there (the page files are unpacked), and the listing of the
\* page files
IndexBundleMake ==
    /\ ipc = "ib_make"
    /\ ipc' = "ib_loop"
    /\ UNCHANGED <<page, fts_page, meta, fts, asked, now, ilast>>
    /\ UNCHANGED <<dirs, litter, euid, pc, op, loc, last>>
    /\ LET sha1 == icall.sha1
           need_make == PathOf(sha1, PageName(sha1, "0001")) \notin DOMAIN files
           made == IF need_make THEN Unpacked(sha1) @@ files ELSE files
           names == {fn[4] : fn \in {f \in DOMAIN made : /\ Len(f) = 4
                                                         /\ SubSeq(f, 1, 3) = DirOf(sha1)
                                                         /\ IsPageFile(f[4])}}
       IN  /\ files' = made
           /\ mtime' = IF need_make THEN [mtime EXCEPT ![DirOf(sha1)] = now] ELSE mtime
           /\ icall' = [icall EXCEPT !.need_make = need_make, !.todo = ListDir(names)]

\* for fn in files: the page is read and goes to index_page; after the
\* loop, os.system("make clean") when make was run
IndexBundleLoop ==
    /\ ipc = "ib_loop"
    /\ UNCHANGED <<page, fts_page, meta, fts, asked, now>>
    /\ UNCHANGED <<dirs, litter, euid, pc, op, loc, last>>
    /\ LET sha1 == icall.sha1
       IN  IF icall.todo = <<>>
           THEN /\ files' = IF icall.need_make
                             THEN [f \in DOMAIN files \ DOMAIN Unpacked(sha1) |-> files[f]]
                             ELSE files
                /\ mtime' = IF icall.need_make THEN [mtime EXCEPT ![DirOf(sha1)] = now]
                             ELSE mtime
                /\ IxFinish("ok", <<>>, 0, 0)
           ELSE /\ ipc' = "ip_select"
                /\ icall' = [icall EXCEPT !.stk = <<"index_bundle">>,
                                           !.file_name = Head(icall.todo),
                                           !.text = files[PathOf(sha1, Head(icall.todo))].content,
                                           !.todo = Tail(icall.todo)]
                /\ UNCHANGED <<files, mtime, ilast>>

\* ----------------------------------------------------------- the sessions

\* The queries put to _prepare_query.
QueryWords == {<<"C", "a", "t", "s">>, <<"D", "o", "g", "s">>, KeywordOr, KeywordAnd}

QueryGaps == {<<" ">>, <<" ", " ">>}

Queries ==
    QueryWords
        \cup {a \o g \o b : a \in QueryWords, g \in QueryGaps, b \in QueryWords}
        \cup {a \o <<" ">> \o b \o g \o c :
                 a \in QueryWords, b \in {KeywordOr, KeywordAnd}, g \in QueryGaps,
                 c \in QueryWords}
        \cup {<<" ">> \o a \o <<" ">> \o b \o <<" ">> : a \in QueryWords, b \in QueryWords}

\* FTS._prepare_query returns (search calls it on its query).
PrepareQuery ==
    /\ ipc = "_prepare_query"
    /\ IxFinish("ok", _prepare_query(icall.query), 0, 0)
    /\ UNCHANGED <<page, fts_page, meta, fts, asked, mtime, now>>
    /\ UNCHANGED fsvars

\* _prepare_query tests its query for a boolean keyword: without one it
\* returns the lowercased query, with one it enters its loop, lquery empty.
PrepareBegin ==
    /\ ipc = "_prepare_query"
    /\ IF ~HaveBooleans(icall.query)
       THEN IxFinish("ok", Lower(icall.query), 0, 0)
       ELSE /\ ipc' = "pq_loop"
            /\ icall' = [icall EXCEPT !.rest = icall.query, !.lquery = <<>>]
            /\ UNCHANGED ilast
    /\ UNCHANGED <<page, fts_page, meta, fts, asked, mtime, now>>
    /\ UNCHANGED fsvars

\* The loop of _prepare_query tests what remains of the query and makes one
\* pass over its body; rest is the local query as the passes rewrite it.
PrepareIterate ==
    /\ ipc = "pq_loop"
    /\ IF icall.rest = <<>>
       THEN IxFinish("ok", icall.lquery, 0, 0)
       ELSE LET it == PrepareIter(icall.rest, icall.lquery)
            IN  IF it.left
                THEN IxFinish("ok", it.lquery, 0, 0)
                ELSE /\ icall' = [icall EXCEPT !.rest = it.query, !.lquery = it.lquery]
                     /\ UNCHANGED <<ipc, ilast>>
    /\ UNCHANGED <<page, fts_page, meta, fts, asked, mtime, now>>
    /\ UNCHANGED fsvars

\* Time passes.
Tick ==
    /\ ipc = "idle"
    /\ now < MaxNow
    /\ now' = now + 1
    /\ UNCHANGED <<page, fts_page, meta, fts, asked, mtime, ipc, icall, ilast>>
    /\ UNCHANGED fsvars

\* Something else (an edit of the record) writes the metadata file of the
\* bundle: its modification time is now.
Touch ==
    /\ ipc = "idle"
    /\ \E path \in {PathOf(IdA, meta_file)} :
          /\ mtime[path] # now
          /\ mtime' = [mtime EXCEPT ![path] = now]
    /\ ilast' = [ilast EXCEPT !.quiet = FALSE]
    /\ UNCHANGED <<page, fts_page, meta, fts, asked, now, ipc, icall>>
    /\ UNCHANGED fsvars

\* FTS.__init__ on the database that exists: a new FTS object, whose
\* reftime is the modification time of the database file.
FtsInit ==
    /\ ipc = "idle"
    /\ \E force_update \in BOOLEAN :
          /\ fts' = FtsNew(FALSE, mtime[dbfile], force_update)
          /\ asked' = force_update
    /\ ilast' = [ilast EXCEPT !.quiet = FALSE]
    /\ UNCHANGED <<page, fts_page, meta, mtime, now, ipc, icall>>
    /\ UNCHANGED fsvars

\* The call is interrupted (the process is killed) at whatever statement.
IxFail ==
    /\ ipc # "idle"
    /\ IxFinish("Interrupted", <<>>, 0, 0)
    /\ UNCHANGED <<page, fts_page, meta, fts, asked, mtime, now>>
    /\ UNCHANGED fsvars

\* FTS.__init__ where no database file exists: the schema is created, the
\* tables are empty, reftime is 0.  The bundle of IdA has its metadata
\* file, and its page files are packed away (the archiver ends with make
\* clean); IdB has a directory only.
InitIndex ==
    /\ InitCommon
    /\ euid = "alice"
    /\ dirs = {DirOf(id) : id \in IxIds}
    /\ files = (PathOf(IdA, meta_file) :> File(LegacyText(IdA), "alice", "staff", "0644"))
    /\ page = {}
    /\ fts_page = <<>>
    /\ meta = {}
    /\ \E force_update \in BOOLEAN :
          /\ fts = FtsNew(TRUE, 0, force_update)
          /\ asked = force_update
    /\ now = 1
    /\ mtime = [path \in {dbfile, DirOf(IdA), DirOf(IdB), PathOf(IdA, meta_file)} |-> 1]
    /\ ipc = "idle"
    /\ icall = NoICall
    /\ ilast = NoILast

NextIndex ==
    \/ CallIndexPage
    \/ CallDeletePage
    \/ CallExpunge
    \/ CallIndexMeta
    \/ CallIndexBundle
    \/ IndexPageSelect
    \/ IndexPageInsertPage
    \/ IndexPageInsertFts
    \/ DeletePagePage
    \/ DeletePageFts
    \/ ExpungeStart
    \/ ExpungeLoop
    \/ IndexMeta
    \/ IndexBundleStart
    \/ IndexBundleMake
    \/ IndexBundleLoop
    \/ IxFail

\* The operations of the index on one FTS object, by one process.
SpecIndex == InitIndex /\ [][NextIndex]_vars

NextBundle ==
    \/ CallIndexPage
    \/ CallIndexBundle
    \/ IndexPageSelect
    \/ IndexPageInsertPage
    \/ IndexPageInsertFts
    \/ IndexBundleStart
    \/ IndexBundleMake
    \/ IndexBundleLoop
    \/ Tick
    \/ Touch
    \/ FtsInit
    \/ IxFail

\* Indexing over time: bundles are indexed and indexed again, by the FTS
\* object that created the database and by ones made later, while time
\* passes and the record is edited.
SpecBundle == InitIndex /\ [][NextBundle]_vars

\* ----------------------------------------------------------------- search

\* The characters of identities, in the order SQLite's binary collation
\* gives them.
HexChars == <<"0", "1", "2", "3", "4", "5", "6", "7", "8", "9", "a", "b", "c", "d", "e", "f">>

HexRank(c) == CHOOSE i \in 1..Len(HexChars) : HexChars[i] = c

\* a < b for two texts of hexadecimal characters
RECURSIVE TextLess(_, _)
TextLess(a, b) ==
    IF b = <<>> THEN FALSE
    ELSE IF a = <<>> THEN TRUE
    ELSE IF Head(a) = Head(b) THEN TextLess(Tail(a), Tail(b))
    ELSE HexRank(Head(a)) < HexRank(Head(b))

\* coalesce(<column>, ''): the text of a column of a meta row
Coalesce(r, column) ==
    LET x == Get(r.fields, column, VNone)
    IN  IF x.type = "str" THEN Chars(x.v) ELSE <<>>

\* lower(' '||coalesce(author,'')||' '||coalesce(title,'')||' '||
\* coalesce(subtitle,'')||' '||coalesce(summary,'')||' ')
col_expr(r) ==
    Lower(<<" ">> \o Coalesce(r, "author") \o <<" ">> \o Coalesce(r, "title") \o <<" ">>
            \o Coalesce(r, "subtitle") \o <<" ">> \o Coalesce(r, "summary") \o <<" ">>)

\* <text> LIKE '%<pattern>%', for patterns without % and _
Like(text, pattern) ==
    \E i \in 1..(Len(text) + 1) :
        /\ i + Len(pattern) - 1 <= Len(text)
        /\ Lower(SubSeq(text, i, i + Len(pattern) - 1)) = Lower(pattern)

\* The columns search selects from a meta row.
MetaRow(r) ==
    [type |-> "meta", id |-> r.meta_id, folder_sha1 |-> r.folder_sha1,
     file_name |-> NoFileName]

\* ... order by folder_sha1
RECURSIVE ByFolder(_)
ByFolder(rows) ==
    IF rows = {} THEN <<>>
    ELSE LET least == CHOOSE r \in rows :
                         \A x \in rows \ {r} : TextLess(r.folder_sha1, x.folder_sha1)
         IN  <<MetaRow(least)>> \o ByFolder(rows \ {least})

\* The select on meta of search, for meta_queries = [query]
SelectMetaLike(mt, query) == ByFolder({r \in mt : Like(col_expr(r), Lower(query))})

\* The whitespace-separated tokens of a match expression.
RECURSIVE MatchTokens(_)
MatchTokens(s) ==
    LET q == LStrip(s)
        n == WordLen(q)
    IN  IF q = <<>> THEN <<>>
        ELSE <<SubSeq(q, 1, n)>> \o MatchTokens(SubSeq(q, n + 1, Len(q)))

\* An OR with nothing before it, nothing after it, or another OR next to
\* it: "malformed MATCH expression".
Malformed(ts) ==
    \E i \in 1..Len(ts) :
        /\ ts[i] = KeywordOr
        /\ i = 1 \/ i = Len(ts) \/ ts[i + 1] = KeywordOr

\* The alternatives of a match expression: terms joined by OR make one,
\* and a document must have a term of each.  (The queries here have at
\* most two terms, for which the standard and the enhanced query syntax
\* agree.)
RECURSIVE Alternatives(_)
Alternatives(ts) ==
    IF ts = <<>> THEN <<>>
    ELSE IF Len(ts) >= 3 /\ ts[2] = KeywordOr
    THEN LET rest == Alternatives(Tail(Tail(ts)))
         IN  <<{Lower(ts[1])} \cup Head(rest)>> \o Tail(rest)
    ELSE <<{Lower(ts[1])}>> \o Alternatives(Tail(ts))

\* fts_page match ?, for one text
Matches4(text, ts) ==
    LET terms == {Lower(MatchTokens(text)[i]) : i \in 1..Len(MatchTokens(text))}
        alts == Alternatives(ts)
    IN  /\ ts # <<>>
        /\ \A i \in 1..Len(alts) : alts[i] \cap terms # {}

\* The columns search selects from the join of page and fts_page, but the
\* snippet and the offsets.
FtsRow(r) ==
    [type |-> "fts", id |-> r.page_id, folder_sha1 |-> r.folder_sha1,
     file_name |-> r.file_name]

\* ... order by 2, 3: by page_id, which is unique
RECURSIVE ByPageId(_)
ByPageId(rows) ==
    IF rows = {} THEN <<>>
    ELSE LET least == CHOOSE r \in rows : \A x \in rows : r.page_id <= x.page_id
         IN  <<FtsRow(least)>> \o ByPageId(rows \ {least})

\* The select on page join fts_page of search
SelectFtsMatch(pg, ft, lquery) ==
    LET ts == MatchTokens(lquery)
    IN  IF Malformed(ts) THEN [status |-> "OperationalError", rows |-> <<>>]
        ELSE [status |-> "ok",
              rows |-> ByPageId({r \in pg : /\ r.page_id \in DOMAIN ft
                                            /\ Matches4(ft[r.page_id], ts)})]

\* The rows in the order fts first, meta second.
SearchRowsFtsFirst(meta_res, res) == res \o meta_res

\* meta_res + res
SearchRows(meta_res, res) == meta_res \o res

\* An OrderedDict in which a row takes the place of the rows of its key.
OrderedDictSet(ret, row) ==
    IF \E i \in 1..Len(ret) : ret[i].key = row.folder_sha1
    THEN [i \in 1..Len(ret) |->
             IF ret[i].key = row.folder_sha1 THEN [ret[i] EXCEPT !.rows = <<row>>]
             ELSE ret[i]]
    ELSE Append(ret, [key |-> row.folder_sha1, rows |-> <<row>>])

\* if row['folder_sha1'] in ret: ret[...].append(row) else: ret[...] = [row],
\* on an OrderedDict (its items in insertion order)
OrderedDictAdd(ret, row) ==
    IF \E i \in 1..Len(ret) : ret[i].key = row.folder_sha1
    THEN [i \in 1..Len(ret) |->
             IF ret[i].key = row.folder_sha1 THEN [ret[i] EXCEPT !.rows = Append(@, row)]
             ELSE ret[i]]
    ELSE Append(ret, [key |-> row.folder_sha1, rows |-> <<row>>])

\* for row in (meta_res + res): ...
RECURSIVE GroupBySha1(_, _)
GroupBySha1(rows, ret) ==
    IF rows = <<>> THEN ret
    ELSE GroupBySha1(Tail(rows), OrderedDictAdd(ret, Head(rows)))

\* The queries put to search: those with single blanks between their
\* words, whose match expression has no AND token left (the enhanced
\* query syntax reads AND as an operator, the standard one as a term).
SearchQueries ==
    {q \in Queries :
        /\ \A i \in 1..Len(q) : q[i] = " " => (i > 1 /\ i < Len(q) /\ q[i + 1] # " ")
        /\ \A i \in 1..Len(MatchTokens(_prepare_query(q))) :
               MatchTokens(_prepare_query(q))[i] # KeywordAnd}

CallSearch ==
    \E query \in SearchQueries, search_meta \in BOOLEAN, group_by_sha1 \in BOOLEAN :
        IxBegin([NoICall EXCEPT !.name = "search", !.query = query,
                                !.search_meta = search_meta,
                                !.group_by_sha1 = group_by_sha1], "se_meta")

\* FTS.search up to its select on meta
SearchMeta ==
    /\ ipc = "se_meta"
    /\ ipc' = "se_fts"
    /\ icall' = [icall EXCEPT !.meta_res = IF icall.search_meta
                                            THEN SelectMetaLike(meta, icall.query)
                                            ELSE <<>>]
    /\ UNCHANGED <<page, fts_page, meta, fts, asked, mtime, now, ilast>>
    /\ UNCHANGED fsvars

\* FTS.search from _prepare_query on: the select on the text index, the
\* grouping, the return
SearchFts ==
    /\ ipc = "se_fts"
    /\ LET lquery == _prepare_query(icall.query)
           res == SelectFtsMatch(page, fts_page, lquery)
           rows == SearchRows(icall.meta_res, res.rows)
       IN  IF res.status # "ok" THEN IxFinish(res.status, <<>>, 0, 0)
           ELSE IF icall.group_by_sha1 THEN IxFinish("ok", GroupBySha1(rows, <<>>), 0, 0)
           ELSE IxFinish("ok", rows, 0, 0)
    /\ UNCHANGED <<page, fts_page, meta, fts, asked, mtime, now>>
    /\ UNCHANGED fsvars

\* The pages and the meta rows of the databases searched.
SearchPage(id, sha1, n) == [page_id |-> id, folder_sha1 |-> sha1, file_name |-> PageName(sha1, n)]

SearchMetaRow(id, sha1, column, text) ==
    [meta_id |-> id, folder_sha1 |-> sha1, fields |-> (column :> VStr(text)), ts |-> 1]

SearchDbs ==
    {[page |-> pg.page, fts_page |-> pg.fts_page, meta |-> mt] :
        pg \in {[page |-> {}, fts_page |-> <<>>],
                [page |-> {SearchPage(1, IdA, "0001"), SearchPage(2, IdB, "0001"),
                           SearchPage(3, IdA, "0002")},
                 fts_page |-> <<(<<"c", "a", "t", "s">>),
                                (<<"d", "o", "g", "s", " ", "c", "a", "t", "s">>),
                                (<<"c", "a", "t", "s", " ", "a">>)>>],
                [page |-> {SearchPage(1, IdB, "0001"), SearchPage(2, IdA, "0001")},
                 fts_page |-> <<(<<"d", "o", "g", "s">>), (<<"c", "a", "t", "s">>)>>]},
        mt \in SUBSET {SearchMetaRow(2, IdA, "author", <<"C", "a", "t", "s">>),
                       SearchMetaRow(1, IdB, "title", <<"C", "a", "t", "s", " ", "D", "o", "g", "s">>)}}

\* FTS.__init__ on a database file that exists and holds pages and meta
\* rows.
InitSearch ==
    /\ InitCommon
    /\ euid = "alice"
    /\ dirs = {}
    /\ files = <<>>
    /\ \E db \in SearchDbs :
          /\ page = db.page
          /\ fts_page = db.fts_page
          /\ meta = db.meta
    /\ fts = FtsNew(FALSE, 1, FALSE)
    /\ asked = FALSE
    /\ now = 1
    /\ mtime = (dbfile :> 1)
    /\ ipc = "idle"
    /\ icall = NoICall
    /\ ilast = NoILast

NextSearch == CallSearch \/ SearchMeta \/ SearchFts \/ IxFail

\* Searches of a database.
SpecSearch == InitSearch /\ [][NextSearch]_vars

\* A query is put to _prepare_query.
InitQuery ==
    /\ InitCommon
    /\ euid = "alice"
    /\ dirs = {}
    /\ files = <<>>
    /\ page = {}
    /\ fts_page = <<>>
    /\ meta = {}
    /\ fts = FtsNew(TRUE, 0, FALSE)
    /\ asked = FALSE
    /\ now = 1
    /\ mtime = (dbfile :> 1)
    /\ ipc = "_prepare_query"
    /\ \E query \in Queries :
          icall = [NoICall EXCEPT !.name = "_prepare_query", !.query = query]
    /\ ilast = NoILast

NextQuery == PrepareQuery \/ IxFail

\* Query normalization.
SpecQuery == InitQuery /\ [][NextQuery]_vars

NextPrepare == PrepareBegin \/ PrepareIterate

\* _prepare_query pass by pass; a call that can take a step takes it.
SpecPrepare == InitQuery /\ [][NextPrepare]_vars /\ WF_vars(NextPrepare)

\* ------------------------------------------------------------ properties

\* The record file of the call p completed last.
LastFn(p) == PathOf(last[p].sha1, meta_file)

\* The call p completed last ran to its end (it returned or raised; it was
\* not interrupted from outside).
Completed(p, name) == last[p].name = name /\ last[p].status # "Interrupted"

\* What read_meta made of the record file before the call p completed last.
PreRecord(p) == ReadText(last[p].prefiles[LastFn(p)].content)

\* C1: (as claimed) after write_meta(id, record) has returned, for an
\* identity that has a record file, read_meta(id) returns a record equal
\* to the one written.
C1_RoundTrip ==
    \A p \in Writers :
        Completed(p, "write_meta") /\ last[p].status = "ok"
            => read_meta(last[p].sha1) = [status |-> "ok", rec |-> last[p].info]

\* C2: (as claimed) after edit_meta(id, changes) has returned, the stored
\* record has changes[k] for every key k of changes, every other key has
\* the value it had before the edit, and no key is dropped or added.
C2_EditMerge ==
    \A p \in Writers :
        Completed(p, "edit_meta") /\ last[p].status = "ok"
            => LET before == PreRecord(p).rec
                   after == read_meta(last[p].sha1)
                   changes == last[p].changes
               IN  /\ after.status = "ok"
                   /\ DOMAIN after.rec = DOMAIN before \cup DOMAIN changes
                   /\ \A k \in DOMAIN changes : after.rec[k] = changes[k]
                   /\ \A k \in DOMAIN before \ DOMAIN changes : after.rec[k] = before[k]

AwPcs == {"aw_stat", "aw_mkstemp", "aw_write", "aw_replace", "aw_chown", "aw_chmod"}

\* C3: while a write of the record file is under way, and after it has
\* failed or been interrupted at whatever statement, the record file
\* holds either the complete text it held before the write or the
\* complete new text, so that read_meta sees one of the two records and
\* never a partially written one.
C3_AtomicWrite ==
    \A p \in Writers :
        /\ pc[p] \in AwPcs
              => /\ loc[p].fn \in DOMAIN files
                 /\ files[loc[p].fn].content \in {loc[p].prior.content, loc[p].text}
        /\ pc[p] = "idle" /\ last[p].text # <<>>
              => /\ LastFn(p) \in DOMAIN files
                 /\ files[LastFn(p)].content
                       \in {last[p].prefiles[LastFn(p)].content, last[p].text}
                 /\ read_meta(last[p].sha1).status \in {"ok", "IOError"}
                       => ReadText(files[LastFn(p)].content)
                             \in {PreRecord(p), ReadText(last[p].text)}

\* C3 witness: a write was interrupted after part of the new text had
\* reached the temporary file; the record file still holds the old text.
C3_Witness ==
    /\ litter = 1
    /\ last["w1"].name = "write_meta"
    /\ last["w1"].status = "Interrupted"
    /\ last["w1"].text # <<>>
    /\ files[LastFn("w1")].content = last["w1"].prefiles[LastFn("w1")].content
    /\ files[LastFn("w1")].content # last["w1"].text

\* C4: (as claimed) the temporary file is completely written and closed
\* before the rename, and the rename is the only step of the write that
\* changes what a reader of the destination path can observe: content,
\* owner or permissions.
C4_RenameOnlyVisibleStep ==
    [][\A p \in Writers :
          /\ pc[p] = "aw_replace"
                => loc[p].tmp.closed /\ loc[p].tmp.content = loc[p].text
          /\ files' # files => pc[p] = "aw_replace"]_vars

\* C4 (amended): the temporary file is completely written and closed
\* before the rename; the rename is the only step that changes the
\* content at the destination path, and it puts the complete new text
\* there; the owner and the permissions seen at the path change in the
\* rename, the chown or the chmod of the write and in no other step.
C4_PublishOrdering ==
    [][\A p \in Writers :
          /\ pc[p] = "aw_replace"
                => /\ loc[p].tmp.made /\ loc[p].tmp.closed
                   /\ loc[p].tmp.content = loc[p].text
          /\ (\E fn \in DOMAIN files :
                 fn \notin DOMAIN files' \/ files'[fn].content # files[fn].content)
                => /\ pc[p] = "aw_replace" /\ pc'[p] = "aw_chown"
                   /\ files'[loc[p].fn].content = loc[p].text
          /\ DOMAIN files' = DOMAIN files
          /\ files' # files => pc[p] \in {"aw_replace", "aw_chown", "aw_chmod"}]_vars

\* C4 witness: right after the rename the destination holds the new text
\* with the owner and permissions of the temporary file, which the chown
\* and chmod to come will change.
C4_Witness ==
    /\ pc["w1"] = "aw_chown"
    /\ files[loc["w1"].fn].content = loc["w1"].text
    /\ loc["w1"].prior.content # loc["w1"].text
    /\ S_IMODE(files[loc["w1"].fn].mode) # loc["w1"].st.mod

\* C5: after a call that wrote the record file and returned, the file's
\* owner, group and permission bits are those it had before the call.
C5_OwnerPermsPreserved ==
    \A p \in Writers :
        last[p].status = "ok" /\ last[p].wrote
            => LET after == files[LastFn(p)]
                   before == last[p].prefiles[LastFn(p)]
               IN  /\ after.uid = before.uid
                   /\ after.gid = before.gid
                   /\ after.mode = before.mode

\* C5 witness: write_meta returned, the file has new content and its
\* permissions are not those of a temporary file.
C5_Witness ==
    /\ last["w1"].name = "write_meta"
    /\ last["w1"].status = "ok"
    /\ last["w1"].wrote
    /\ files[LastFn("w1")].content # last["w1"].prefiles[LastFn("w1")].content
    /\ S_IMODE(files[LastFn("w1")].mode) = "0644"

\* C6: (as claimed) write_meta(id, record) for an identity whose directory
\* exists and which has no record file creates the file, and read_meta(id)
\* then returns the record.
C6_RecordCreation ==
    \A p \in Writers :
        (/\ Completed(p, "write_meta")
         /\ DirOf(last[p].sha1) \in last[p].predirs
         /\ LastFn(p) \notin DOMAIN last[p].prefiles)
            => /\ last[p].status = "ok"
               /\ LastFn(p) \in DOMAIN files
               /\ read_meta(last[p].sha1).status = "ok"

\* C7: read_meta(id) for an identity with no record file at
\* <base>/<id[:2]>/<id>/<meta file> raises the not-found ValueError and
\* leaves directories, files and temporary files as they were.
C7_ReadNotFound ==
    \A p \in Writers :
        Completed(p, "read_meta") /\ LastFn(p) \notin DOMAIN last[p].prefiles
            => /\ last[p].status = "ValueError"
               /\ files = last[p].prefiles
               /\ dirs = last[p].predirs
               /\ litter = last[p].prelitter

\* C7 witness: read_meta was called for the identity that has a directory
\* and no record file, and raised.
C7_Witness ==
    /\ last["w1"].name = "read_meta"
    /\ last["w1"].sha1 = IdB
    /\ DirOf(IdB) \in dirs
    /\ PathOf(IdB, meta_file) \notin DOMAIN files
    /\ last["w1"].status = "ValueError"

\* The stored identities that start with a prefix.
Matches(ds, short) == {d[3] : d \in {e \in ds : Len(e) = 3 /\ StartsWith(e[3], short)}}

InRange(short) == MinShaLen <= Len(short) /\ Len(short) < ShaLen

\* C8: (as claimed) for a prefix of 4 to 39 characters that is a prefix of
\* exactly one stored identity, expand_sha1 returns that identity.
C8_ExpandUnique ==
    \A p \in Writers :
        (/\ last[p].name = "expand_sha1"
         /\ InRange(last[p].sha1)
         /\ Cardinality(Matches(last[p].predirs, last[p].sha1)) = 1)
            => /\ last[p].status = "ok"
               /\ last[p].value.v \in Matches(last[p].predirs, last[p].sha1)

\* C9: (as claimed) for a prefix of 4 to 39 characters, expand_sha1 raises
\* the ambiguity error when two or more stored identities start with it
\* and returns None when none does; it returns no identity in either case.
C9_ExpandErrors ==
    \A p \in Writers :
        last[p].name = "expand_sha1" /\ InRange(last[p].sha1)
            => LET n == Cardinality(Matches(last[p].predirs, last[p].sha1))
               IN  /\ n >= 2 => last[p].status = "ValueError"
                   /\ n = 0 => last[p].status = "None"
                   /\ n # 1 => last[p].value.v = <<>>

\* C10: (as claimed) get_slug returns the stored non-empty slug unless
\* ignore_saved is true or overwrite and save are both true; in those
\* cases, and when no slug is stored, it returns the slug computed from
\* the current fields and, if save is true and the computed slug differs
\* from the stored one, has persisted it through edit_meta.
C10_SlugRule ==
    \A p \in Writers :
        Completed(p, "get_slug") /\ last[p].status = "ok"
            => LET info == PreRecord(p).rec
                   stored == Get(info, "slug", VNone)
                   fresh == VStr(AutoSlug(info, last[p].sha1))
                   recompute == \/ ~Truthy(stored)
                                \/ last[p].ignore_saved
                                \/ (last[p].overwrite /\ last[p].save)
               IN  /\ last[p].value = IF recompute THEN fresh ELSE stored
                   /\ recompute /\ last[p].save /\ fresh # stored
                         => read_meta(last[p].sha1).rec = Merge(info, [slug |-> fresh])

\* C11: a get_slug(id, save=True) that follows a get_slug(id, save=True)
\* with the same arguments, the record untouched in between, returns the
\* same slug and writes nothing (no record file, no temporary file); and
\* no get_slug with overwrite=False, however it ends, changes a stored
\* non-empty slug.
C11_SlugStability ==
    \A p \in Writers :
        /\ (/\ Completed(p, "get_slug") /\ last[p].status = "ok" /\ last[p].save
             /\ last[p].prev.sha1 = last[p].sha1
             /\ last[p].prev.overwrite = last[p].overwrite
             /\ last[p].prev.ignore_saved = last[p].ignore_saved)
                => /\ last[p].value = last[p].prev.value
                   /\ ~last[p].wrote
                   /\ files = last[p].prefiles
                   /\ litter = last[p].prelitter
        /\ (/\ last[p].name = "get_slug" /\ ~last[p].overwrite
             /\ LastFn(p) \in DOMAIN last[p].prefiles
             /\ PreRecord(p).ok
             /\ Truthy(Get(PreRecord(p).rec, "slug", VNone)))
                => /\ LastFn(p) \in DOMAIN files
                   /\ ReadText(files[LastFn(p)].content).ok
                   /\ Get(ReadText(files[LastFn(p)].content).rec, "slug", VNone)
                         = Get(PreRecord(p).rec, "slug", VNone)

\* C11 witness: the first get_slug(save=True) computed a slug and stored it
\* in a record that had none; the second returned it and wrote nothing.
C11_Witness ==
    /\ last["w1"].name = "get_slug" /\ last["w1"].status = "ok" /\ last["w1"].save
    /\ ~last["w1"].overwrite /\ ~last["w1"].ignore_saved
    /\ last["w1"].prev.sha1 = last["w1"].sha1
    /\ ~last["w1"].prev.overwrite /\ ~last["w1"].prev.ignore_saved
    /\ ~Truthy(Get(ReadText(LegacyText(IdA)).rec, "slug", VNone))
    /\ Get(PreRecord("w1").rec, "slug", VNone) = last["w1"].value
    /\ last["w1"].value = VStr(AutoSlug(ReadText(LegacyText(IdA)).rec, IdA))
    /\ files = last["w1"].prefiles

\* C12: an index_bundle(id) that follows an index_bundle(id) that ran to
\* its end, on the same FTS object, made without a forced refresh, with
\* the bundle untouched in between, runs no statement that changes a row
\* of page, fts_page or meta, however it ends.
C12_StalenessSkip ==
    (ilast.name = "index_bundle" /\ ilast.follows /\ ~asked) => ilast.writes = 0

\* C12 witness: the second index_bundle in a row has ended on an FTS
\* object whose reftime is newer than the directory and the metadata file
\* (the case of the skip), over a table that has a page.
C12_Witness ==
    /\ ilast.name = "index_bundle"
    /\ ilast.follows
    /\ ilast.status # "Interrupted"
    /\ ~asked
    /\ fts.reftime > mtime[DirOf(IdA)]
    /\ fts.reftime > mtime[PathOf(IdA, meta_file)]
    /\ ilast.sha1 = IdA
    /\ page # {}
    /\ ilast.writes = 0

\* C13 (index_page idempotent skip): when index_page is called with a
\* file_name that has a page row and no forced refresh was requested, the
\* call returns normally and the page table and the text index are as they
\* were, whatever the text.
C13_IdempotentSkip ==
    [][(/\ ipc = "ip_select" /\ icall.name = "index_page"
        /\ SelectPageId(page, icall.file_name) # {}
        /\ ~asked
        /\ ipc' = "idle" /\ ilast'.status # "Interrupted")
       => (ilast'.status = "ok" /\ page' = page /\ fts_page' = fts_page)]_vars

\* C14 (row identifier stability): no step changes the page_id of a file
\* name that stays in the page table; a forced index_page on a file name
\* that has a page row returns with the munged text stored under that row's
\* identifier and the page table as it was; index_page on a new file name
\* gives its row an identifier no page row had.
C14_RowidStability ==
    [][/\ \A r \in page, n \in page' :
              r.file_name = n.file_name => r.page_id = n.page_id
       /\ (/\ ipc = "ip_select" /\ icall.name = "index_page"
           /\ SelectPageId(page, icall.file_name) # {}
           /\ asked
           /\ ipc' = "idle" /\ ilast'.status # "Interrupted")
          => /\ ilast'.status = "ok"
             /\ page' = page
             /\ DOMAIN fts_page' = DOMAIN fts_page
             /\ \A id \in SelectPageId(page, icall.file_name) \cap DOMAIN fts_page :
                    fts_page'[id] = _munge_text(icall.text)
       /\ (ipc = "ip_insert_page" /\ page' # page)
          => \E n \in page' \ page :
                 /\ page' = page \cup {n}
                 /\ n.file_name = icall.file_name
                 /\ n.page_id \notin {r.page_id : r \in page}]_vars

\* Every page row has a text row and every text row a page row, and no two
\* page rows share a file name.
Paired(pg, ft) ==
    /\ {r.page_id : r \in pg} = DOMAIN ft
    /\ \A r1, r2 \in pg : r1.file_name = r2.file_name => r1 = r2

\* C15 (pairing invariant): a call of index_page, delete_page, expunge or
\* index_bundle that starts with the row identifiers of the text index
\* equal to the page_id values of the page table and with unique file names,
\* and runs to its end (returning or raising), ends with them so.
C15_Pairing ==
    [][(/\ ipc # "idle" /\ ipc' = "idle"
        /\ icall.name \in {"index_page", "delete_page", "expunge", "index_bundle"}
        /\ ilast'.status # "Interrupted"
        /\ Paired(icall.pre.page, icall.pre.fts_page))
       => Paired(page', fts_page')]_vars

\* A delete_page by page_id has returned 1 and left a page behind, with its
\* text row.
C15_Witness ==
    /\ ilast.name = "delete_page" /\ ilast.status = "ok" /\ ilast.ret = 1
    /\ page # {} /\ Paired(page, fts_page)

\* The page rows a delete_page call names with exactly one of its arguments.
Target(c) ==
    IF c.page_id # NoPageId /\ c.file_name = NoFileName
    THEN {r \in c.pre.page : r.page_id = c.page_id}
    ELSE IF c.page_id = NoPageId /\ c.file_name # NoFileName
    THEN {r \in c.pre.page : r.file_name = c.file_name}
    ELSE {}

\* C16 (paired deletion): delete_page with the page_id of an existing page,
\* or with the file_name of one, returns with that page row and its text row
\* removed and all other rows unchanged.
C16_PairedDeletion ==
    [][(/\ ipc # "idle" /\ ipc' = "idle"
        /\ icall.name = "delete_page"
        /\ ilast'.status # "Interrupted"
        /\ Paired(icall.pre.page, icall.pre.fts_page)
        /\ Target(icall) # {})
       => /\ ilast'.status = "ok"
          /\ page' = icall.pre.page \ Target(icall)
          /\ fts_page' = [id \in DOMAIN icall.pre.fts_page
                                    \ {r.page_id : r \in Target(icall)}
                              |-> icall.pre.fts_page[id]]]_vars

\* C17 (delete_page argument contract): delete_page is rejected with the
\* need-either error, the tables unchanged, exactly when neither or both of
\* page_id and file_name are supplied.
C17_ArgumentContract ==
    [][(/\ ipc = "dp_page" /\ icall.name = "delete_page"
        /\ ilast'.status # "Interrupted")
       => ((/\ ipc' = "idle" /\ ilast'.status = NeedEither
            /\ page' = page /\ fts_page' = fts_page)
           <=> ((icall.page_id = NoPageId) <=> (icall.file_name = NoFileName)))]_vars

\* C18 (delete_page not-found): delete_page with exactly one of page_id and
\* file_name, which names no page row, fails with the not-found error and
\* leaves the page table and the text index as they were.
C18_NotFound ==
    [][(/\ ipc # "idle" /\ ipc' = "idle"
        /\ icall.name = "delete_page"
        /\ ilast'.status # "Interrupted"
        /\ (icall.page_id = NoPageId) # (icall.file_name = NoFileName)
        /\ Target(icall) = {})
       => /\ ilast'.status = CouldNotFind
          /\ page' = icall.pre.page
          /\ fts_page' = icall.pre.fts_page]_vars

\* C19 (index_meta upsert): for a bundle with a directory and a readable
\* record, index_meta returns; with no row for the identity it has inserted
\* one row with the identity, the record's fields and the modification time
\* of the metadata file; with a row it has updated it when the row's
\* timestamp is older than that time or force_update is set, and written
\* nothing otherwise; the meta table has at most one row per identity.
C19_IndexMetaUpsert ==
    [][(/\ ipc = "im_select" /\ ipc' = "idle"
        /\ ilast'.status # "Interrupted"
        /\ _bundleinfo(icall.sha1).status = "ok"
        /\ read_meta(icall.sha1).status = "ok")
       => LET rows == {r \in meta : r.folder_sha1 = icall.sha1}
              mod_meta == mtime[PathOf(icall.sha1, meta_file)]
              rec == read_meta(icall.sha1).rec
          IN  /\ ilast'.status = "ok"
              /\ \A r1, r2 \in meta' : r1.folder_sha1 = r2.folder_sha1 => r1 = r2
              /\ IF rows = {}
                 THEN \E n \in meta' \ meta :
                          /\ meta' = meta \cup {n}
                          /\ n.folder_sha1 = icall.sha1 /\ n.fields = rec /\ n.ts = mod_meta
                 ELSE \A r \in rows :
                          IF r.ts < mod_meta \/ icall.force_update
                          THEN meta' = (meta \ {r})
                                         \cup {[r EXCEPT !.fields = rec, !.ts = mod_meta]}
                          ELSE meta' = meta]_vars

\* The whitespace-separated tokens of a string.
RECURSIVE Words(_)
Words(s) ==
    LET q == LStrip(s)
        n == WordLen(q)
    IN  IF q = <<>> THEN <<>>
        ELSE <<SubSeq(q, 1, n)>> \o Words(SubSeq(q, n + 1, Len(q)))

\* Tokens normalised: OR kept, AND dropped, the others case-folded.
RECURSIVE Normalised(_)
Normalised(ws) ==
    IF ws = <<>> THEN <<>>
    ELSE IF Head(ws) = KeywordAnd THEN Normalised(Tail(ws))
    ELSE IF Head(ws) = KeywordOr THEN <<KeywordOr>> \o Normalised(Tail(ws))
    ELSE <<Lower(Head(ws))>> \o Normalised(Tail(ws))

\* C20 (query normalization): _prepare_query returns the case-folded query
\* when no token of it is OR or AND; otherwise the tokens of its result are
\* those of the query with each OR kept, each AND dropped and every other
\* token case-folded, in order, the last token included.
C20_QueryNormalization ==
    (ilast.name = "_prepare_query" /\ ilast.status = "ok")
        => LET ws == Words(ilast.query)
           IN  IF \A i \in 1..Len(ws) : ws[i] \notin {KeywordOr, KeywordAnd}
               THEN ilast.value = Lower(ilast.query)
               ELSE Words(ilast.value) = Normalised(ws)

\* The keys of rows, each where it comes first.
RECURSIVE FirstKeys(_, _)
FirstKeys(rows, seen) ==
    IF rows = <<>> THEN <<>>
    ELSE IF Head(rows).folder_sha1 \in seen THEN FirstKeys(Tail(rows), seen)
    ELSE <<Head(rows).folder_sha1>>
            \o FirstKeys(Tail(rows), seen \cup {Head(rows).folder_sha1})

\* The rows of one kind and one identity among rows, in their order.
RECURSIVE RowsOf(_, _, _)
RowsOf(rows, type, sha1) ==
    IF rows = <<>> THEN <<>>
    ELSE IF Head(rows).type = type /\ Head(rows).folder_sha1 = sha1
    THEN <<Head(rows)>> \o RowsOf(Tail(rows), type, sha1)
    ELSE RowsOf(Tail(rows), type, sha1)

\* What the engine gives a search that has returned: the meta matches and
\* the text matches.
EngineMeta == IF ilast.search_meta THEN SelectMetaLike(meta, ilast.query) ELSE <<>>

EngineFts == SelectFtsMatch(page, fts_page, _prepare_query(ilast.query)).rows

\* C21 (grouping order): a search with group_by_sha1 returns an ordered
\* mapping whose keys are the identities of the matches in the order of
\* their first appearance in the meta matches followed by the text matches,
\* each key with its meta matches first and its text matches after them,
\* both in the engine's order.
C21_GroupingOrder ==
    (ilast.name = "search" /\ ilast.status = "ok" /\ ilast.group_by_sha1)
        => LET ret == ilast.value
           IN  /\ [i \in 1..Len(ret) |-> ret[i].key] = FirstKeys(EngineMeta \o EngineFts, {})
               /\ \A i \in 1..Len(ret) :
                      ret[i].rows = RowsOf(EngineMeta, "meta", ret[i].key)
                                       \o RowsOf(EngineFts, "fts", ret[i].key)

\* One meta match and two text matches of one identity came back as a list
\* of three with the meta match first, the text matches of another identity
\* lying between them in the engine's order.
C21_Witness ==
    /\ ilast.name = "search" /\ ilast.status = "ok" /\ ilast.group_by_sha1
    /\ Len(ilast.value) = 2
    /\ ilast.value[1].key = IdA
    /\ Len(ilast.value[1].rows) = 3
    /\ ilast.value[1].rows[1].type = "meta"
    /\ ilast.value[1].rows[2].type = "fts"
    /\ ilast.value[1].rows[3].type = "fts"
    /\ ilast.value[1].rows[2].id < ilast.value[2].rows[1].id
    /\ ilast.value[2].rows[1].id < ilast.value[1].rows[3].id

\* C22 (identity invariant): after a write_meta or edit_meta call on an
\* identity has returned, the record stored under the identity's directory
\* has a sha1 field equal to the identity.
C22_IdentityInvariant ==
    \A p \in Procs :
        (last[p].name \in {"write_meta", "edit_meta"} /\ last[p].status = "ok")
            => LET r == ReadText(files[LastFn(p)].content)
               IN  /\ r.ok
                   /\ "sha1" \in DOMAIN r.rec
                   /\ r.rec["sha1"] = VStr(last[p].sha1)

\* C23 (archive layout): the directory get_path, _bundleinfo and
\* _maybe_mkdir compute for an identity is <base>/<first two characters of
\* the identity>/<identity>, whatever directories and files exist.
C23_ArchiveLayout ==
    \A p \in Procs :
        (last[p].name \in {"get_path", "_bundleinfo", "_maybe_mkdir"} /\ last[p].status = "ok")
            => last[p].rec.dirname
                   = <<last[p].rec.basedir, SubSeq(last[p].sha1, 1, 2), last[p].sha1>>

\* _bundleinfo has returned the directory of an identity on the second
\* base, where directories of both bases exist.
C23_Witness ==
    \E p \in Procs :
        /\ last[p].name = "_bundleinfo" /\ last[p].status = "ok"
        /\ last[p].rec.basedir # basedir
        /\ last[p].rec.dirname \in dirs
        /\ DirOf(last[p].sha1) \in dirs

\* C24 (index_bundle reindex steps): an index_bundle call that the
\* staleness check does not skip returns with a page row for every
\* page-text file of the document and a meta row for the identity.
C24_ReindexSteps ==
    [][(/\ icall.name = "index_bundle"
        /\ ipc \notin {"idle", "ib_start"} /\ ipc' = "idle"
        /\ ilast'.status # "Interrupted")
       => /\ ilast'.status = "ok"
          /\ \A n \in PageNums : SelectPageId(page', PageName(icall.sha1, n)) # {}
          /\ \E r \in meta' : r.folder_sha1 = icall.sha1]_vars

\* C25 (interruption of a sweep): when an index_bundle, index_page or
\* delete_page call that started from paired tables has been interrupted
\* between two of its statements, the committed tables hold no page row
\* without its text row and no text row without its page row.
C25_InterruptedPairing ==
    [][(/\ ipc # "idle" /\ ipc' = "idle"
        /\ icall.name \in {"index_bundle", "index_page", "delete_page"}
        /\ ilast'.status = "Interrupted"
        /\ Paired(icall.pre.page, icall.pre.fts_page))
       => {r.page_id : r \in page'} = DOMAIN fts_page']_vars

\* The texts the writers have serialized for the record file.
MergedTexts ==
    {loc[p].text : p \in {q \in Procs : pc[q] \in AwPcs}}
        \cup {last[p].text : p \in {q \in Procs : last[q].name = "edit_meta"}}

\* C26 (concurrent edits): while two writers run edit_meta on one identity
\* with disjoint keys, the record file holds at every moment the initial
\* record or the complete merged record of one writer.
C26_ConcurrentEdits ==
    /\ PathOf(IdA, meta_file) \in DOMAIN files
    /\ files[PathOf(IdA, meta_file)].content \in {LegacyText(IdA)} \cup MergedTexts

\* Lost update: both writers have returned and the record lacks the change
\* of the first.
C26_Witness ==
    /\ \A p \in Procs : last[p].name = "edit_meta" /\ last[p].status = "ok"
    /\ LET r == ReadText(files[PathOf(IdA, meta_file)].content)
       IN  /\ r.ok
           /\ r.rec["title"] # EditsOf("w1")["title"]
           /\ r.rec["year"] = EditsOf("w2")["year"]

\* C27 (expunge): expunge(sha1) returns with every page row of sha1, its
\* text row and the meta row of sha1 removed and the rows of the other
\* identities unchanged; with meta_only it returns with only the meta row
\* removed.
C27_Expunge ==
    [][(/\ ipc # "idle" /\ ipc' = "idle"
        /\ icall.name = "expunge"
        /\ ilast'.status # "Interrupted"
        /\ Paired(icall.pre.page, icall.pre.fts_page))
       => LET gone == IF icall.meta_only THEN {}
                      ELSE {r \in icall.pre.page : r.folder_sha1 = icall.sha1}
          IN  /\ ilast'.status = "ok"
              /\ page' = icall.pre.page \ gone
              /\ fts_page' = [id \in DOMAIN icall.pre.fts_page \ {r.page_id : r \in gone}
                                  |-> icall.pre.fts_page[id]]
              /\ meta' = {r \in icall.pre.meta : r.folder_sha1 # icall.sha1}]_vars

\* C28 (_prepare_query terminates): every pass of the rewriting loop either
\* leaves the loop or leaves a remaining query strictly shorter than the one
\* it found, and every call of _prepare_query returns.
C28_PrepareTerminates ==
    /\ [][ipc = "pq_loop"
             => \/ ipc' = "idle"
                \/ /\ ipc' = "pq_loop"
                   /\ Len(icall'.rest) < Len(icall.rest)]_vars
    /\ <>(ipc = "idle" /\ ilast.name = "_prepare_query" /\ ilast.status = "ok")

\* The loop has made a pass that consumed a token and has a token left.
C28_Witness ==
    /\ ipc = "pq_loop"
    /\ icall.lquery # <<>>
    /\ icall.rest # <<>>
    /\ Len(icall.rest) < Len(icall.query)

\* How many times row occurs in rows.
RECURSIVE Occurs(_, _)
Occurs(rows, row) ==
    IF rows = <<>> THEN 0
    ELSE (IF Head(rows) = row THEN 1 ELSE 0) + Occurs(Tail(rows), row)

\* The lists of a grouped result, one after the other.
RECURSIVE Flat(_)
Flat(ret) == IF ret = <<>> THEN <<>> ELSE Head(ret).rows \o Flat(Tail(ret))

\* C29 (grouping loses nothing): an ungrouped search returns the meta
\* matches followed by the text matches (the text matches alone when
\* search_meta is false); a grouped search returns those same rows, each
\* once, each in the list of the key equal to its folder_sha1, no key twice.
C29_GroupingLosesNothing ==
    (ilast.name = "search" /\ ilast.status = "ok")
        => LET all == EngineMeta \o EngineFts
               ret == ilast.value
           IN  IF ~ilast.group_by_sha1 THEN ret = all
               ELSE /\ \A i \in 1..Len(ret) : \A j \in 1..Len(ret[i].rows) :
                          ret[i].rows[j].folder_sha1 = ret[i].key
                    /\ \A i, j \in 1..Len(ret) : ret[i].key = ret[j].key => i = j
                    /\ Len(Flat(ret)) = Len(all)
                    /\ \A k \in 1..Len(all) :
                          /\ Occurs(all, all[k]) = 1
                          /\ Occurs(Flat(ret), all[k]) = 1

\* A grouped search with search_meta came back with four rows or more under
\* two keys, meta and text matches among them.
C29_Witness ==
    /\ ilast.name = "search" /\ ilast.status = "ok"
    /\ ilast.group_by_sha1 /\ ilast.search_meta
    /\ Len(ilast.value) = 2
    /\ Len(Flat(ilast.value)) >= 4
    /\ \E k \in 1..Len(Flat(ilast.value)) : Flat(ilast.value)[k].type = "meta"
    /\ \E k \in 1..Len(Flat(ilast.value)) : Flat(ilast.value)[k].type = "fts"
====
